---- MODULE Spec2Model ----
(***************************************************************************)
(* Workspace indexing pipeline of codezen.diy:                             *)
(*   app/lib/services/WorkspaceIndexService.ts  (queue, drain, graph)      *)
(*   app/lib/stores/diagnostics.ts              (diagnostics store)        *)
(*                                                                         *)
(* Strings are modelled as sequences of segments: the path "src/a.ts" is   *)
(* <<"src", "a", ".ts">>, the id "file:src/a.ts" is <<"file:">> \o path,   *)
(* so that prefixing, suffixing and key lookups are computed, not assumed. *)
(* A file's text is a sequence of statements (what the service's regular   *)
(* expressions pick out of it); each statement carries the code it         *)
(* contributes to the rolling hash.                                        *)
(***************************************************************************)
EXTENDS Integers, Sequences, FiniteSets, TLC

(***************************************************************************)
(* Bounds of the model                                                     *)
(***************************************************************************)
\* file-map mutations (set / delete of one key) the environment performs
MaxFileOps == 1
\* public calls (queueFileForIndexing, reindexAll) the environment performs
MaxCalls == 2

(***************************************************************************)
(* Paths, ids, file contents                                               *)
(***************************************************************************)
None == <<"none">>

pA == <<"src", "a", ".ts">>
pB == <<"src", "b", ".ts">>
pC == <<"src", "c", ".ts">>
pR == <<"src", "readme", ".md">>
Paths == {pA, pB, pC, pR}

Last(s) == s[Len(s)]
EndsWith(s, ext) == Len(s) > 0 /\ Last(s) = ext

FileId(path) == <<"file:">> \o path
SymbolId(path, name) == <<"symbol:">> \o path \o <<":", name>>

\* statements of a file text, one statement on each line
Stmt(op, shape, names, name, ext, path, code) ==
    [op |-> op, shape |-> shape, names |-> names, name |-> name,
     extends |-> ext, path |-> path, code |-> code]
ImportNamed(names, path, code) == Stmt("import", "named", names, "", "", path, code)
ImportDefault(name, path, code) == Stmt("import", "default", <<>>, name, "", path, code)
ClassDecl(name, ext, code) == Stmt("class", "", <<>>, name, ext, <<>>, code)
AsAny(code) == Stmt("asany", "", <<>>, "", "", <<>>, code)

\* the value of an omitted content argument
Undefined == << Stmt("undefined", "", <<>>, "", "", <<>>, 0) >>

\* import specifiers: '~/b.ts', './b', 'react'
impAliasB == <<"~/", "b", ".ts">>
impAliasC == <<"~/", "c", ".ts">>
impRelB == <<".", "b">>
impReact == <<"react">>

\* ""   (an empty file)
cEmpty == <<>>
\* class A extends B {}; import { useState } from 'react'
cA == << ClassDecl("A", "B", 99), ImportNamed(<<"useState">>, impReact, 106) >>
\* class B {}; x as any
cB == << ClassDecl("B", "", 98), AsAny(97) >>
\* import b from '~/b.ts'
cC == << ImportDefault("b", impAliasB, 105) >>
\* import c from '~/c.ts'   (with cC in src/c.ts: an import cycle)
cCyc == << ImportDefault("c", impAliasC, 104) >>
\* import { b } from './b'
cRel == << ImportNamed(<<"b">>, impRelB, 114) >>
\* import { c } from '~/c.ts'; import c from '~/c.ts'   (one module, imported twice)
cTwice == << ImportNamed(<<"c">>, impAliasC, 116), ImportDefault("c", impAliasC, 119) >>
\* class U {}; import { B } from '~/b.ts'   (with cB in src/b.ts: B is a symbol of it)
cUse == << ClassDecl("U", "", 117), ImportNamed(<<"B">>, impAliasB, 120) >>
Contents == {cEmpty, cA, cB, cC, cCyc, cRel, cTwice, cUse}

\* what the environment writes to each key of the file map
Writes(p) ==
    IF p = pA THEN {cRel}
    ELSE IF p = pB THEN {cEmpty}
    ELSE IF p = pR THEN {cB}
    ELSE {}

\* what callers of queueFileForIndexing pass as content (Undefined: no argument)
Passes(p) == IF p = pB THEN {cB, cEmpty, Undefined} ELSE {Undefined}

\* the file maps the service is constructed over: key order and entries
InitialFileMaps ==
    { [order |-> <<>>, content |-> <<>>],
      [order |-> <<pC, pA, pB>>, content |-> <<cC, cA, cB>>],
      [order |-> <<pR, pB, pA>>, content |-> <<cB, cEmpty, cRel>>],
      [order |-> <<pC, pB>>, content |-> <<cC, cCyc>>],
      [order |-> <<pC, pB>>, content |-> <<cEmpty, cTwice>>],
      [order |-> <<pB, pC>>, content |-> <<cCyc, Undefined>>],
      [order |-> <<pB, pA>>, content |-> <<cB, cUse>>] }

(***************************************************************************)
(* Pure helpers of WorkspaceIndexService                                   *)
(***************************************************************************)
\* the element of a one-element set; The({e : x \in {v}}) is e with x standing for
\* the value v, computed once
The(S) == CHOOSE x \in S : TRUE

Range(seq) == {seq[i] : i \in DOMAIN seq}
RemoveKey(f, k) == [x \in DOMAIN f \ {k} |-> f[x]]
SetKey(f, k, v) == (k :> v) @@ f

IndexableExtensions == <<".js", ".jsx", ".ts", ".tsx", ".json", ".css", ".scss", ".less", ".html", ".vue">>
PossibleExtensions == <<".js", ".jsx", ".ts", ".tsx", ".json">>
CodeFileExtensions == {".js", ".jsx", ".ts", ".tsx", ".vue", ".svelte", ".astro"}
AllExtensions == {IndexableExtensions[i] : i \in DOMAIN IndexableExtensions} \cup CodeFileExtensions \cup {".md"}

\* _shouldIndexFile: some indexable extension is a suffix of the path
ShouldIndexFile(filePath) ==
    \E i \in DOMAIN IndexableExtensions : EndsWith(filePath, IndexableExtensions[i])

\* _shouldAnalyzeForDiagnostics: the text from the last '.' on is a code extension
ShouldAnalyzeForDiagnostics(filePath) ==
    Len(filePath) > 0 /\ Last(filePath) \in CodeFileExtensions

\* _simpleHash: hash = (hash << 5) - hash + char, truncated to 32 bits after every
\* character; the value is kept as its two 16-bit halves <<high, low>>, which is
\* what toString(16) prints (one hexadecimal string per 32-bit value).
HashStep(h, char) ==
    LET lo == h[2] * 31 + char
        hi == h[1] * 31 + (lo \div (2^16))
    IN  <<hi % (2^16), lo % (2^16)>>

RECURSIVE HashFrom(_, _, _)
HashFrom(content, i, h) ==
    IF i > Len(content) THEN h
    ELSE HashFrom(content, i + 1, HashStep(h, content[i].code))

SimpleHash(content) == HashFrom(content, 1, <<0, 0>>)

\* JavaScript truthiness of the optional content argument: undefined and "" are falsy
Truthy(content) == content # Undefined /\ content # <<>>

\* the directory part of a path: substring(0, lastIndexOf('/'))
IsExtension(seg) == seg \in AllExtensions
SourceDir(sourcePath) ==
    LET nameLen == IF IsExtension(Last(sourcePath)) THEN 2 ELSE 1
        dir == SubSeq(sourcePath, 1, Len(sourcePath) - nameLen)
    IN  IF dir = <<>> THEN <<"">> ELSE dir

HasPossibleExtension(path) ==
    \E i \in DOMAIN PossibleExtensions : EndsWith(path, PossibleExtensions[i])

\* the probing loop of _resolveImportPath: <path><ext>, then <path>/index<ext>
RECURSIVE ProbeExtensions(_, _, _)
ProbeExtensions(fileKeys, resolvedPath, i) ==
    IF i > Len(PossibleExtensions) THEN resolvedPath \o <<".jsx">>
    ELSE LET testPath == resolvedPath \o <<PossibleExtensions[i]>>
             indexPath == resolvedPath \o <<"index", PossibleExtensions[i]>>
         IN  IF testPath \in fileKeys THEN testPath
             ELSE IF indexPath \in fileKeys THEN indexPath
             ELSE ProbeExtensions(fileKeys, resolvedPath, i + 1)

\* _resolveImportPath: null (None) for an external module
ResolveImportPath(fileKeys, sourcePath, importPath) ==
    IF Head(importPath) \in {".", ".."}
    THEN LET resolvedPath == SourceDir(sourcePath) \o importPath
         IN  IF ~HasPossibleExtension(resolvedPath)
             THEN ProbeExtensions(fileKeys, resolvedPath, 1)
             ELSE resolvedPath
    ELSE IF Head(importPath) \in {"~/", "@/"}
    THEN <<"src">> \o Tail(importPath)
    ELSE None

(***************************************************************************)
(* Diagnostics store (stores/diagnostics.ts): path -> ordered list         *)
(***************************************************************************)
\* DiagnosticsStore.clearDiagnostics(filePath): the path's list becomes []
\* (ClearDiagnosticsKeep: a clear that leaves the list alone, for comparison)
ClearDiagnosticsKeep(store, filePath) == store
ClearDiagnostics(store, filePath) == SetKey(store, filePath, <<>>)

IndexOfId(list, id) ==
    IF \E i \in DOMAIN list : list[i].id = id
    THEN CHOOSE i \in DOMAIN list : list[i].id = id /\ \A j \in 1..(i - 1) : list[j].id # id
    ELSE 0

\* the list the store holds for a path ([] when the path has no key)
ListOf(store, filePath) == IF filePath \in DOMAIN store THEN store[filePath] ELSE <<>>

\* DiagnosticsStore.clearDiagnostics(): the whole map is replaced by {}
ClearAllDiagnostics(store) == <<>>

\* DiagnosticsStore.removeDiagnostic: the path's list without the entries of that id
RemoveDiagnostic(store, filePath, diagnosticId) ==
    SetKey(store, filePath,
           SelectSeq(IF filePath \in DOMAIN store THEN store[filePath] ELSE <<>>,
                     LAMBDA d : d.id # diagnosticId))

\* DiagnosticsStore.addDiagnostic: replace the entry with the same id, else append
\* (AddDiagnosticPush: the push without the findIndex test, for comparison)
AddDiagnosticPush(store, diagnostic) ==
    SetKey(store, diagnostic.filePath,
           Append(IF diagnostic.filePath \in DOMAIN store
                  THEN store[diagnostic.filePath] ELSE <<>>, diagnostic))
AddDiagnostic(store, diagnostic) ==
    LET fileDiagnostics == IF diagnostic.filePath \in DOMAIN store
                           THEN store[diagnostic.filePath] ELSE <<>>
        existingIndex == IndexOfId(fileDiagnostics, diagnostic.id)
    IN  SetKey(store, diagnostic.filePath,
               IF existingIndex # 0
               THEN [fileDiagnostics EXCEPT ![existingIndex] = diagnostic]
               ELSE Append(fileDiagnostics, diagnostic))

\* enum DiagnosticSeverity (diagnostics/types.ts)
SeverityHint == 1
SeverityInfo == 2
SeverityWarning == 4
SeverityError == 8

\* a severity as DiagnosticData carries it: a string, or a number of the enum
SeverityString(value) == [string |-> value]
SeverityNumber(value) == [number |-> value]
\* typeof severity === 'string'
IsString(severity) == DOMAIN severity = {"string"}

\* fromSeverityEnum
FromSeverityEnum(severity) ==
    IF severity = SeverityError THEN "error"
    ELSE IF severity = SeverityWarning THEN "warning"
    ELSE IF severity = SeverityInfo THEN "info"
    ELSE IF severity = SeverityHint THEN "hint"
    ELSE "info"

\* DiagnosticService.addDiagnostic: the item with its severity as a string, handed
\* to the store
ServiceAddDiagnostic(store, diagnostic) ==
    AddDiagnostic(store,
                  [id |-> diagnostic.id, filePath |-> diagnostic.filePath,
                   line |-> diagnostic.line, column |-> diagnostic.column,
                   message |-> diagnostic.message,
                   severity |-> IF IsString(diagnostic.severity)
                                THEN diagnostic.severity.string
                                ELSE FromSeverityEnum(diagnostic.severity.number)])

(***************************************************************************)
(* The service state as one record, threaded through the operations.       *)
(*   files, fileOrder   the external file map and its key (insertion) order*)
(*   graph              {files, symbols, dependencies}; symbols keeps the  *)
(*                      insertion order of the object's keys               *)
(*   queue              _indexingQueue; every entry carries the ticket of  *)
(*                      its push (history, not program state)              *)
(*   drains             the activations of _processIndexQueue that are     *)
(*                      suspended at an await, each with the version it    *)
(*                      captured (stale, lastTicket, startTicket: history) *)
(*   now                the clock read by Date.now()                       *)
(*   detectRuns, lastIndexed, nextTicket    history variables              *)
(***************************************************************************)
EmptyGraph == [files |-> <<>>, symbols |-> <<>>, dependencies |-> <<>>]

NoEntry == [path |-> None, ticket |-> 0, had |-> <<>>, prev |-> 0, during |-> FALSE,
            stale |-> FALSE, threw |-> FALSE, afterThrow |-> FALSE]

HasSymbol(graph, id) == \E i \in DOMAIN graph.symbols : graph.symbols[i].id = id

\* this._graph.symbols[symbolId] = node: an existing key keeps its place
PutSymbol(graph, node) ==
    IF HasSymbol(graph, node.id)
    THEN [graph EXCEPT !.symbols =
            [i \in DOMAIN graph.symbols |->
                IF graph.symbols[i].id = node.id THEN node ELSE graph.symbols[i]]]
    ELSE [graph EXCEPT !.symbols = Append(@, node)]

\* findIndex over graph.dependencies, given the indices that match (0 for -1)
FirstEdge(hits) ==
    IF hits # {} THEN CHOOSE i \in hits : \A j \in hits : i <= j ELSE 0

\* _addDependencyEdge: the target is the first symbol whose name is targetName
AddDependencyEdge(graph, sourceId, targetName, kind) ==
    LET hits == {i \in DOMAIN graph.symbols : graph.symbols[i].name = targetName}
    IN  IF hits = {} THEN graph
        ELSE LET first == CHOOSE i \in hits : \A j \in hits : i <= j
                 targetId == graph.symbols[first].id
                 existingIndex ==
                    FirstEdge({i \in DOMAIN graph.dependencies :
                                 /\ graph.dependencies[i].source = sourceId
                                 /\ graph.dependencies[i].target = targetId
                                 /\ graph.dependencies[i].kind = kind})
             IN  IF existingIndex # 0
                 THEN [graph EXCEPT !.dependencies[existingIndex].weight = @ + 1]
                 ELSE [graph EXCEPT !.dependencies =
                         Append(@, [source |-> sourceId, target |-> targetId,
                                    kind |-> kind, weight |-> 1])]

\* the import edge of _analyzeImports: matched on (source, target) only
\* (AddImportEdgeAlways: the push without the findIndex test, for comparison)
AddImportEdgeAlways(graph, sourceId, targetId) ==
    [graph EXCEPT !.dependencies =
        Append(@, [source |-> sourceId, target |-> targetId,
                   kind |-> "import", weight |-> 1])]
AddImportEdge(graph, sourceId, targetId) ==
    LET existingEdgeIndex ==
            FirstEdge({i \in DOMAIN graph.dependencies :
                         /\ graph.dependencies[i].source = sourceId
                         /\ graph.dependencies[i].target = targetId})
    IN  IF existingEdgeIndex # 0
        THEN [graph EXCEPT !.dependencies[existingEdgeIndex].weight = @ + 1]
        ELSE [graph EXCEPT !.dependencies =
                Append(@, [source |-> sourceId, target |-> targetId,
                           kind |-> "import", weight |-> 1])]

\* _detectSymbols, the class scan: every match writes its SymbolNode, and a class
\* with an extends clause asks for an 'extends' edge
RECURSIVE DetectClasses(_, _, _, _, _)
DetectClasses(graph, filePath, content, i, detectedSymbols) ==
    IF i > Len(content)
    THEN [graph EXCEPT !.files[FileId(filePath)].symbols = detectedSymbols]
    ELSE IF content[i].op # "class"
    THEN DetectClasses(graph, filePath, content, i + 1, detectedSymbols)
    ELSE LET symbolId == SymbolId(filePath, content[i].name)
             g1 == PutSymbol(graph, [id |-> symbolId, name |-> content[i].name,
                                     kind |-> "class", filePath |-> filePath])
             g2 == IF content[i].extends # ""
                   THEN AddDependencyEdge(g1, symbolId, content[i].extends, "extends")
                   ELSE g1
         IN  DetectClasses(g2, filePath, content, i + 1, Append(detectedSymbols, symbolId))

DetectSymbols(graph, filePath, content) == DetectClasses(graph, filePath, content, 1, <<>>)

\* _detectTypeScriptIssues: one 'unsafe-assertion' diagnostic per line with "as any"
RECURSIVE DetectTypeScriptIssues(_, _, _, _)
DetectTypeScriptIssues(store, filePath, content, i) ==
    IF i > Len(content) THEN store
    ELSE IF content[i].op # "asany"
    THEN DetectTypeScriptIssues(store, filePath, content, i + 1)
    ELSE DetectTypeScriptIssues(
            AddDiagnostic(store, [id |-> <<"unsafe-assertion-">> \o filePath \o <<"-", ToString(i - 1)>>,
                                  filePath |-> filePath, line |-> i, column |-> 3,
                                  severity |-> "info"]),
            filePath, content, i + 1)

\* imports.set(name, position): a Map keeps the place of a key it already holds
SetImport(imports, name, line, column) ==
    IF \E j \in DOMAIN imports : imports[j].name = name
    THEN [j \in DOMAIN imports |->
            IF imports[j].name = name
            THEN [name |-> name, line |-> line, column |-> column]
            ELSE imports[j]]
    ELSE Append(imports, [name |-> name, line |-> line, column |-> column])

\* _detectUnusedImports, first loop: the names between the braces of every import.
\* Every such import of the texts names one binding, at column 10 of its line.
RECURSIVE CollectImports(_, _, _, _)
CollectImports(content, i, k, imports) ==
    IF i > Len(content) THEN imports
    ELSE IF content[i].op # "import" \/ content[i].shape # "named"
            \/ k > Len(content[i].names)
    THEN CollectImports(content, i + 1, 1, imports)
    ELSE CollectImports(content, i, k + 1, SetImport(imports, content[i].names[k], i, 10))

\* the words of a statement that is left once the import statements are cut out
WordsOf(stmt) ==
    IF stmt.op = "class"
    THEN {"class", stmt.name} \cup (IF stmt.extends # "" THEN {"extends", stmt.extends} ELSE {})
    ELSE IF stmt.op = "asany" THEN {"x", "as", "any"}
    ELSE {}

\* _detectUnusedImports, second loop: the words of contentAfterImports
UsedWords(content) == UNION {WordsOf(content[i]) : i \in DOMAIN content}

\* _detectUnusedImports, third loop: one 'unused-import' diagnostic per unused name
RECURSIVE ReportUnused(_, _, _, _, _)
ReportUnused(store, filePath, imports, usedImports, j) ==
    IF j > Len(imports) THEN store
    ELSE IF imports[j].name \in usedImports
    THEN ReportUnused(store, filePath, imports, usedImports, j + 1)
    ELSE ReportUnused(
            AddDiagnostic(store, [id |-> <<"unused-import-">> \o filePath
                                           \o <<"-", imports[j].name>>,
                                  filePath |-> filePath, line |-> imports[j].line,
                                  column |-> imports[j].column, severity |-> "warning"]),
            filePath, imports, usedImports, j + 1)

DetectUnusedImports(store, filePath, content) ==
    ReportUnused(store, filePath, CollectImports(content, 1, 1, <<>>), UsedWords(content), 1)

\* the detectors _detectDiagnostics runs on a code file, in its order. Two of them are
\* modelled, the unused-import and the 'as any' detector. The bracket,
\* undefined-variable and React detectors are left out: each of them, like these
\* two, only calls addDiagnostic for filePath with ids of its own.
Detectors(store, filePath, content) ==
    IF EndsWith(filePath, ".ts") \/ EndsWith(filePath, ".tsx")
    THEN DetectTypeScriptIssues(DetectUnusedImports(store, filePath, content),
                                filePath, content, 1)
    ELSE DetectUnusedImports(store, filePath, content)

\* _detectDiagnostics: clear, then (code files only) detect. A content that is not a
\* string makes the first detector throw a TypeError at content.split('\n').
DetectDiagnostics(s, filePath, content) ==
    IF ShouldAnalyzeForDiagnostics(filePath) /\ content = Undefined
    THEN [s EXCEPT !.detectRuns = @ + 1,
                   !.diagnostics = ClearDiagnostics(@, filePath),
                   !.threw = TRUE,
                   !.lastIndexed.threw = TRUE]
    ELSE [s EXCEPT !.detectRuns = @ + 1,
                   !.diagnostics =
                      IF ~ShouldAnalyzeForDiagnostics(filePath)
                      THEN ClearDiagnostics(@, filePath)
                      ELSE Detectors(ClearDiagnostics(@, filePath), filePath, content)]

(***************************************************************************)
(* Indexing: queueFileForIndexing, _processIndexQueue, _indexFile,         *)
(* _analyzeFileContent, _analyzeImports call each other; each operator     *)
(* runs the synchronous part of its function and returns the new state.    *)
(***************************************************************************)
InQueue(s, filePath) == \E i \in DOMAIN s.queue : s.queue[i].path = filePath

\* this._indexingQueue.push(filePath)
Push(s, filePath) ==
    [s EXCEPT !.queue = Append(@, [path |-> filePath, ticket |-> s.nextTicket]),
              !.nextTicket = @ + 1]

\* this._indexingQueue.shift() removes and returns the entry at this position
\* (ShiftIndexLast: what pop() would take, for comparison)
ShiftIndexLast(s) == Len(s.queue)
ShiftIndex(s) == 1

\* the 'uses' wiring of one named import: for (sourceSymbolId of file.symbols)
RECURSIVE UsesFromSymbols(_, _, _, _)
UsesFromSymbols(graph, sourceSymbols, targetSymbolId, k) ==
    IF k > Len(sourceSymbols) THEN graph
    ELSE UsesFromSymbols(AddDependencyEdge(graph, sourceSymbols[k], targetSymbolId, "uses"),
                         sourceSymbols, targetSymbolId, k + 1)

\* imports.forEach(importedSymbol => ...): the guard looks the resolved PATH up
\* among the keys of graph.files
RECURSIVE NamedImports(_, _, _, _, _)
NamedImports(graph, fileId, resolvedPath, names, k) ==
    IF k > Len(names) THEN graph
    ELSE LET targetSymbolId == SymbolId(resolvedPath, names[k])
             g1 == IF resolvedPath \in DOMAIN graph.files /\ HasSymbol(graph, targetSymbolId)
                   THEN UsesFromSymbols(graph, graph.files[fileId].symbols, targetSymbolId, 1)
                   ELSE graph
         IN  NamedImports(g1, fileId, resolvedPath, names, k + 1)

\* the virtual node and edge of an external module
ExternalImport(s, fileId, importPath) ==
    LET virtualPath == <<"node_modules">> \o importPath
        targetFileId == FileId(virtualPath)
        g1 == IF targetFileId \notin DOMAIN s.graph.files
              THEN [s.graph EXCEPT !.files =
                      SetKey(@, targetFileId,
                             [path |-> virtualPath, lastModified |-> s.now, symbols |-> <<>>])]
              ELSE s.graph
    IN  [s EXCEPT !.graph = AddImportEdge(g1, fileId, targetFileId)]

\* the default-import symbol symbol:<resolved>:default, written once
DefaultImport(graph, resolvedPath, defaultImport) ==
    LET targetSymbolId == SymbolId(resolvedPath, "default")
    IN  IF ~HasSymbol(graph, targetSymbolId)
        THEN PutSymbol(graph, [id |-> targetSymbolId, name |-> defaultImport,
                               kind |-> "module", filePath |-> resolvedPath])
        ELSE graph

RECURSIVE QueueFileForIndexing(_, _, _)
RECURSIVE ProcessIndexQueue(_)
RECURSIVE AnalyzeImports(_, _, _, _)

\* the last step of one import: the target is queued unless the graph has its FileNode
QueueImportTarget(s, resolvedPath) ==
    IF FileId(resolvedPath) \notin DOMAIN s.graph.files
    THEN QueueFileForIndexing(s, resolvedPath, Undefined)
    ELSE s

\* named imports, then the default import, of one import statement
ImportedSymbols(graph, fileId, resolvedPath, stmt) ==
    IF stmt.shape = "named"
    THEN NamedImports(graph, fileId, resolvedPath, stmt.names, 1)
    ELSE IF stmt.shape = "default"
    THEN DefaultImport(graph, resolvedPath, stmt.name)
    ELSE graph

\* one import that resolves to a project path: edge, symbols, enqueue
ImportOfFile(s, fileId, resolvedPath, stmt) ==
    QueueImportTarget(
        [s EXCEPT !.graph = ImportedSymbols(AddImportEdge(@, fileId, FileId(resolvedPath)),
                                            fileId, resolvedPath, stmt)],
        resolvedPath)

\* _analyzeImports: one pass of the import regex over the text
AnalyzeImports(s, filePath, content, i) ==
    IF i > Len(content) THEN s
    ELSE IF content[i].op # "import" THEN AnalyzeImports(s, filePath, content, i + 1)
    ELSE AnalyzeImports(
            The({ IF resolvedPath = None
                  THEN ExternalImport(s, FileId(filePath), content[i].path)
                  ELSE ImportOfFile(s, FileId(filePath), resolvedPath, content[i])
                  : resolvedPath \in {ResolveImportPath(DOMAIN s.files, filePath,
                                                        content[i].path)} }),
            filePath, content, i + 1)

\* _analyzeFileContent: a fresh FileNode, then symbols, diagnostics, imports (an
\* exception thrown by a step skips the steps after it)
AnalyzeFileContent(s, filePath, content) ==
    LET g0 == [s.graph EXCEPT !.files =
                 SetKey(@, FileId(filePath),
                        [path |-> filePath, lastModified |-> s.now, symbols |-> <<>>])]
        s1 == [s EXCEPT !.graph = DetectSymbols(g0, filePath, content), !.now = @ + 1]
    IN  The({ IF s2.threw THEN s2 ELSE AnalyzeImports(s2, filePath, content, 1)
              : s2 \in {DetectDiagnostics(s1, filePath, content)} })

FileFound(s, filePath) == filePath \in DOMAIN s.files /\ s.files[filePath].type = "file"

\* _indexFile up to its await; its catch block logs the exception and returns
\* (IndexFileNoCatch: the body without the try/catch, for comparison)
IndexFileNoCatch(s, filePath) ==
    IF ~FileFound(s, filePath) THEN s
    ELSE AnalyzeFileContent([s EXCEPT !.diagnostics = ClearDiagnostics(@, filePath)],
                            filePath, s.files[filePath].content)
IndexFile(s, filePath) ==
    IF ~FileFound(s, filePath) THEN s
    ELSE [AnalyzeFileContent([s EXCEPT !.diagnostics = ClearDiagnostics(@, filePath)],
                             filePath, s.files[filePath].content)
            EXCEPT !.threw = FALSE]

\* the guard of _processIndexQueue (DrainGuardQueueOnly: the guard without its
\* _isIndexing test, for comparison)
DrainGuardQueueOnly(s) == s.queue = <<>>
DrainGuard(s) == s.isIndexing \/ s.queue = <<>>

\* the test of the while loop of _processIndexQueue
LoopTest(s, currentVersion) == s.queue # <<>> /\ currentVersion = s.indexVersion

\* the catch block (a log line) and the finally block: isIndexing = false, and a new drain when the queue is not empty
Finally(s) ==
    LET s1 == [s EXCEPT !.isIndexing = FALSE]
    IN  IF s1.queue # <<>> THEN ProcessIndexQueue(s1) ELSE s1

\* one turn of the loop: shift the head and index it; the activation is then
\* suspended at "await this._indexFile(filePath)" (_indexFile's own await of
\* _analyzeFileContent lies inside that suspension: only a log line runs between
\* the two resumptions). An exception that leaves _indexFile ends the loop in the
\* catch and finally blocks.
LoopBody(s, drain) ==
    LET entry == s.queue[ShiftIndex(s)]
        s1 == [s EXCEPT !.queue = SubSeq(@, 1, ShiftIndex(s) - 1)
                                    \o SubSeq(@, ShiftIndex(s) + 1, Len(@)),
                        !.lastIndexed =
                           [path |-> entry.path, ticket |-> entry.ticket,
                            had |-> IF entry.path \in DOMAIN s.diagnostics
                                    THEN s.diagnostics[entry.path] ELSE <<>>,
                            prev |-> drain.lastTicket,
                            during |-> entry.ticket >= drain.startTicket,
                            stale |-> drain.stale, threw |-> FALSE,
                            afterThrow |-> drain.lastThrew]]
    IN  The({ IF s2.threw
              THEN Finally([s2 EXCEPT !.threw = FALSE])
              ELSE [s2 EXCEPT !.drains =
                              Append(@, [drain EXCEPT !.lastTicket = entry.ticket,
                                                      !.lastThrew = s2.lastIndexed.threw])]
              : s2 \in {IndexFile(s1, entry.path)} })

\* _processIndexQueue from its call to its first await
ProcessIndexQueue(s) ==
    IF DrainGuard(s) THEN s
    ELSE LET s1 == [s EXCEPT !.isIndexing = TRUE, !.indexVersion = @ + 1]
             drain == [currentVersion |-> s1.indexVersion, stale |-> FALSE,
                       lastTicket |-> 0, lastThrew |-> FALSE,
                       startTicket |-> s1.nextTicket]
         IN  IF LoopTest(s1, drain.currentVersion) THEN LoopBody(s1, drain) ELSE Finally(s1)

\* the hash gate of queueFileForIndexing: TRUE when the call returns early
HashGate(s, filePath, content) ==
    /\ Truthy(content)
    /\ filePath \in DOMAIN s.fileHashes
    /\ s.fileHashes[filePath] = SimpleHash(content)

\* "if (!this._indexingQueue.includes(filePath))": push, then _processIndexQueue()
\* (for comparison, EnqueueUnchecked: without the includes test; EnqueueNoDrain:
\* without the _processIndexQueue call)
EnqueueUnchecked(s, filePath) == ProcessIndexQueue(Push(s, filePath))
EnqueueNoDrain(s, filePath) == IF ~InQueue(s, filePath) THEN Push(s, filePath) ELSE s
Enqueue(s, filePath) ==
    IF ~InQueue(s, filePath) THEN ProcessIndexQueue(Push(s, filePath)) ELSE s

\* queueFileForIndexing(filePath, content?)
QueueFileForIndexing(s, filePath, content) ==
    IF ~ShouldIndexFile(filePath) THEN s
    ELSE IF HashGate(s, filePath, content) THEN s
    ELSE Enqueue(IF Truthy(content)
                 THEN [s EXCEPT !.fileHashes = SetKey(@, filePath, SimpleHash(content))]
                 ELSE s,
                 filePath)

(***************************************************************************)
(* _initializeWorkspace, _handleFilesChanged, _removeFileFromIndex,        *)
(* reindexAll                                                              *)
(***************************************************************************)
IsIndexableFile(s, filePath) ==
    FileFound(s, filePath) /\ ShouldIndexFile(filePath)

\* for (const [filePath, dirent] of Object.entries(files)) queueFileForIndexing(...)
RECURSIVE InitLoop(_, _, _)
InitLoop(s, entries, i) ==
    IF i > Len(entries) THEN s
    ELSE InitLoop(IF IsIndexableFile(s, entries[i])
                  THEN QueueFileForIndexing(s, entries[i], s.files[entries[i]].content)
                  ELSE s,
                  entries, i + 1)

\* _initializeWorkspace
InitializeWorkspace(s) == [InitLoop(s, s.fileOrder, 1) EXCEPT !.initialized = TRUE]

\* _removeFileFromIndex(filePath)
RemoveFileFromIndex(s, filePath) ==
    LET fileId == FileId(filePath)
    IN  IF fileId \notin DOMAIN s.graph.files THEN s
        ELSE LET owned == {s.graph.files[fileId].symbols[i] :
                              i \in DOMAIN s.graph.files[fileId].symbols}
             IN  [s EXCEPT
                    !.graph = [files |-> RemoveKey(s.graph.files, fileId),
                               symbols |-> SelectSeq(s.graph.symbols,
                                                     LAMBDA n : n.id \notin owned),
                               dependencies |-> SelectSeq(s.graph.dependencies,
                                   LAMBDA dep : dep.source # fileId /\ dep.target # fileId)],
                    !.diagnostics = ClearDiagnostics(@, filePath)]

\* the first loop of _handleFilesChanged: "content changed" test, then enqueue
HashChanged(s, filePath) ==
    filePath \notin DOMAIN s.fileHashes
        \/ s.fileHashes[filePath] # SimpleHash(s.files[filePath].content)

\* _simpleHash(dirent.content) throws a TypeError at content.length when the
\* content is not a string
HashThrows(s, filePath) ==
    IsIndexableFile(s, filePath) /\ s.files[filePath].content = Undefined

\* the entries the first loop gets through
RECURSIVE Reached(_, _, _)
Reached(s, entries, i) ==
    IF i > Len(entries) \/ HashThrows(s, entries[i]) THEN SubSeq(entries, 1, i - 1)
    ELSE Reached(s, entries, i + 1)

RECURSIVE ChangedLoop(_, _, _)
ChangedLoop(s, entries, i) ==
    IF i > Len(entries) THEN s
    ELSE IF HashThrows(s, entries[i]) THEN [s EXCEPT !.threw = TRUE]
    ELSE LET filePath == entries[i]
             s1 == IF IsIndexableFile(s, filePath) /\ HashChanged(s, filePath)
                   THEN QueueFileForIndexing(
                          [s EXCEPT !.fileHashes =
                              SetKey(@, filePath, SimpleHash(s.files[filePath].content))],
                          filePath, s.files[filePath].content)
                   ELSE s
         IN  ChangedLoop(s1, entries, i + 1)

\* the second loop: for (const filePath of Object.keys(this._graph.files))
RECURSIVE RemovedLoop(_, _)
RemovedLoop(s, keys) ==
    IF keys = {} THEN s
    ELSE LET filePath == CHOOSE k \in keys : TRUE
             s1 == IF filePath \notin DOMAIN s.files \/ s.files[filePath].type # "file"
                   THEN [RemoveFileFromIndex(s, filePath) EXCEPT
                            !.fileHashes = RemoveKey(@, filePath)]
                   ELSE s
         IN  RemovedLoop(s1, keys \ {filePath})

\* _handleFilesChanged(files); an exception of the first loop leaves the handler
\* for the file store that called it
HandleFilesChanged(s) ==
    IF ~s.initialized THEN s
    ELSE The({ IF s1.threw THEN [s1 EXCEPT !.threw = FALSE]
               ELSE RemovedLoop(s1, DOMAIN s1.graph.files)
               : s1 \in {ChangedLoop(s, s.fileOrder, 1)} })

\* reindexAll(): this._graph = { files: {}, symbols: {}, dependencies: [] } is a new
\* object
ReindexAll(s) ==
    InitializeWorkspace([s EXCEPT !.graph = EmptyGraph,
                                  !.graphObject = @ + 1,
                                  !.fileHashes = <<>>,
                                  !.queue = <<>>])

(***************************************************************************)
(* State                                                                   *)
(***************************************************************************)
VARIABLES
    files,            \* the external file map: path -> [type, content]
    fileOrder,        \* its keys in insertion order (Object.entries order)
    graph,            \* _graph
    indexingQueue,    \* _indexingQueue
    isIndexing,       \* _isIndexing
    indexVersion,     \* _indexVersion
    fileHashes,       \* _fileHashes
    initialized,      \* _initialized
    drains,           \* suspended activations of _processIndexQueue
    diagnostics,      \* diagnosticsStore.diagnostics
    now,              \* Date.now(): every indexing pass reads a later time
    timerFired,       \* the constructor's setTimeout has run
    \* history variables
    nextTicket,       \* number of pushes so far + 1
    detectRuns,       \* number of _detectDiagnostics runs so far
    lastIndexed,      \* the queue entry this step passed to _indexFile (NoEntry: none)
    lastCall,         \* the queueFileForIndexing call this step made (NoCall: none)
    processed,        \* <<path, content>> of the latest queueFileForIndexing call per
                      \* path since the last file-map change, initialization or
                      \* reindexAll
    owed,             \* paths the file-map handler saw with a changed hash and that were
                      \* not passed to _indexFile since
    midDrainReindex,  \* the last environment step was reindexAll() during a drain
    undisturbed,      \* no file-map change and no public call since _initializeWorkspace
                      \* ran from the timer
    dropped,          \* the queued paths this step's reindexAll() discarded for good
    resumptions,      \* parity of the number of resumptions so far
    fileOps,          \* file-map mutations so far
    calls,            \* public calls so far
    graphObject,      \* which object this._graph refers to (objects numbered as created)
    held,             \* the reference a caller got from getGraph(): the object, and what
                      \* the object holds once the service has let go of it (NoRef: no
                      \* reference taken)
    client,           \* the objects beside the index service: the file context cache
                      \* of DiagnosticService (with, per path, the first non-empty
                      \* original content a call supplied: history), and the call of
                      \* TypeScriptDiagnosticProvider.processFile that is running,
                      \* and the caller that steps through the diagnostics with
                      \* findNextDiagnostic (its start, its position, the ids it
                      \* was given: history), and the atoms of WorkspaceIndexStore
    lastOp            \* the call this step made on the diagnostics store, the diagnostic
                      \* service or the navigation service, with what it returned
                      \* (NoOp: none)

vars == <<files, fileOrder, graph, indexingQueue, isIndexing, indexVersion, fileHashes,
          initialized, drains, diagnostics, now, timerFired, nextTicket, detectRuns,
          lastIndexed, lastCall, processed, owed, midDrainReindex, undisturbed,
          dropped, resumptions, fileOps, calls, graphObject, held, lastOp, client>>

\* everything but the diagnostics store and the record of the last call on it
indexVars == <<files, fileOrder, graph, indexingQueue, isIndexing, indexVersion, fileHashes,
               initialized, drains, now, timerFired, nextTicket, detectRuns,
               lastIndexed, lastCall, processed, owed, midDrainReindex, undisturbed,
               dropped, resumptions, fileOps, calls, graphObject, held>>

\* the service state as the record the operations work on
St == [files |-> files, fileOrder |-> fileOrder, graph |-> graph, queue |-> indexingQueue,
       isIndexing |-> isIndexing, indexVersion |-> indexVersion, fileHashes |-> fileHashes,
       initialized |-> initialized, drains |-> drains, diagnostics |-> diagnostics,
       now |-> now, nextTicket |-> nextTicket, detectRuns |-> detectRuns,
       lastIndexed |-> NoEntry, threw |-> FALSE, graphObject |-> graphObject]

\* a step ends in state r
Becomes(r) ==
    /\ files' = r.files
    /\ fileOrder' = r.fileOrder
    /\ graph' = r.graph
    /\ indexingQueue' = r.queue
    /\ isIndexing' = r.isIndexing
    /\ indexVersion' = r.indexVersion
    /\ fileHashes' = r.fileHashes
    /\ initialized' = r.initialized
    /\ drains' = r.drains
    /\ diagnostics' = r.diagnostics
    /\ now' = r.now
    /\ nextTicket' = r.nextTicket
    /\ detectRuns' = r.detectRuns
    /\ lastIndexed' = r.lastIndexed
    /\ graphObject' = r.graphObject

NoCall == [path |-> None, content |-> Undefined]
NoRun == [pc |-> "idle", content |-> <<>>, api |-> 0, lastIndex |-> 1, diagnostics |-> <<>>,
          parity |-> 0]
NoTour == [active |-> FALSE, done |-> FALSE, visited |-> {},
           start |-> [filePath |-> <<>>, line |-> 0, column |-> 0],
           position |-> [filePath |-> <<>>, line |-> 0, column |-> 0]]
\* WorkspaceIndexStore after its constructor (over the empty graph)
NewIndexStore == [isIndexing |-> FALSE, progress |-> 0,
                  stats |-> [files |-> 0, symbols |-> 0, dependencies |-> 0]]
NoClient == [fileContextCache |-> <<>>, firstOriginal |-> <<>>, run |-> NoRun,
             tour |-> NoTour, indexStore |-> NewIndexStore]
NoRef == [object |-> 0, frozen |-> <<>>]
NoOp == [op |-> "none", arg |-> <<>>, result |-> <<>>]

FileDirent(content) == [type |-> "file", content |-> content]
FolderDirent == [type |-> "folder", content |-> Undefined]

FileMapOf(m) == [p \in {m.order[i] : i \in DOMAIN m.order} |->
                    FileDirent(m.content[CHOOSE i \in DOMAIN m.order : m.order[i] = p])]

\* paths still owed an indexing pass after a step
Settle(set, r) ==
    {p \in set : p \in DOMAIN r.files /\ r.files[p].type = "file" /\ r.lastIndexed.path # p}

\* the service after its constructor has run
InitService ==
    /\ \E m \in InitialFileMaps : files = FileMapOf(m) /\ fileOrder = m.order
    /\ graph = EmptyGraph
    /\ indexingQueue = <<>>
    /\ isIndexing = FALSE
    /\ indexVersion = 0
    /\ fileHashes = <<>>
    /\ initialized = FALSE
    /\ drains = <<>>
    /\ diagnostics = <<>>
    /\ now = 1
    /\ timerFired = FALSE
    /\ nextTicket = 1
    /\ detectRuns = 0
    /\ lastIndexed = NoEntry
    /\ lastCall = NoCall
    /\ processed = {}
    /\ owed = {}
    /\ midDrainReindex = FALSE
    /\ undisturbed = FALSE
    /\ dropped = {}
    /\ resumptions = 0
    /\ graphObject = 1
    /\ held = NoRef
    /\ client = NoClient
    /\ lastOp = NoOp

Init == InitService /\ fileOps = 0 /\ calls = 0

(***************************************************************************)
(* Steps                                                                   *)
(***************************************************************************)
\* setTimeout(() => this._initializeWorkspace(), 500). A timer callback is a task of
\* its own: it starts only when no continuation of a drain is pending, whereas the
\* writers of the file map and the callers of the public methods may run between two
\* continuations (later code of the same task, or a continuation of their own).
InitTimer ==
    /\ ~timerFired
    /\ drains = <<>>
    /\ timerFired' = TRUE
    /\ \E r \in {InitializeWorkspace(St)} :
           /\ Becomes(r)
           /\ owed' = Settle(owed, r)
    /\ lastCall' = NoCall
    /\ processed' = {}
    /\ midDrainReindex' = FALSE
    /\ undisturbed' = TRUE
    /\ dropped' = {}
    /\ UNCHANGED <<fileOps, calls, resumptions, held, lastOp, client>>

\* the file map changes one key and notifies its subscriber, _handleFilesChanged
Notify(newFiles, newOrder) ==
    \E s0 \in {[St EXCEPT !.files = newFiles, !.fileOrder = newOrder]} :
    \E r \in {HandleFilesChanged(s0)} :
        /\ Becomes(r)
        /\ owed' = Settle(owed \cup IF ~initialized THEN {}
                                    ELSE {p \in Range(Reached(s0, newOrder, 1)) :
                                             IsIndexableFile(s0, p) /\ HashChanged(s0, p)},
                          r)
        /\ lastCall' = NoCall
        /\ processed' = {}
        /\ midDrainReindex' = FALSE
        /\ undisturbed' = FALSE
        /\ fileOps' = fileOps + 1
        /\ dropped' = {}
        /\ UNCHANGED <<calls, timerFired, resumptions, held, lastOp, client>>

FilesSet(p, dirent) ==
    /\ fileOps < MaxFileOps
    /\ ~(p \in DOMAIN files /\ files[p] = dirent)
    /\ Notify(SetKey(files, p, dirent),
              IF p \in DOMAIN files THEN fileOrder ELSE Append(fileOrder, p))

FilesDelete(p) ==
    /\ fileOps < MaxFileOps
    /\ p \in DOMAIN files
    /\ Notify(RemoveKey(files, p), SelectSeq(fileOrder, LAMBDA k : k # p))

\* a caller invokes queueFileForIndexing(filePath, content?)
CallQueueFile(p, content) ==
    /\ calls < MaxCalls
    /\ calls' = calls + 1
    /\ \E r \in {QueueFileForIndexing(St, p, content)} :
           /\ Becomes(r)
           /\ owed' = Settle(owed, r)
    /\ lastCall' = [path |-> p, content |-> content]
    /\ processed' = {pc \in processed : pc[1] # p} \cup {<<p, content>>}
    /\ midDrainReindex' = FALSE
    /\ undisturbed' = FALSE
    /\ dropped' = {}
    /\ UNCHANGED <<fileOps, timerFired, resumptions, held, lastOp, client>>

\* the editor panel's effect runs over its document of src/b.ts, the unsaved text
\* "foo(": it clears the path's list and adds what its own syntax check reports
EditorDiagnostics(filePath) ==
    << [id |-> <<"syntax-error-">> \o filePath \o <<"-", ToString(0)>>,
        filePath |-> filePath,
        line |-> 1, column |-> 4, severity |-> "error"] >>

EditorEffect(filePath) ==
    /\ calls < MaxCalls
    /\ calls' = calls + 1
    /\ diagnostics' = AddDiagnostic(ClearDiagnostics(diagnostics, filePath),
                                    EditorDiagnostics(filePath)[1])
    /\ lastIndexed' = NoEntry
    /\ lastCall' = NoCall
    /\ midDrainReindex' = FALSE
    /\ dropped' = {}
    /\ UNCHANGED <<files, fileOrder, graph, indexingQueue, isIndexing, indexVersion,
                   fileHashes, initialized, drains, now, timerFired, nextTicket,
                   detectRuns, processed, owed, undisturbed, resumptions, fileOps,
                   graphObject, held, lastOp, client>>

\* a caller invokes getGraph() and keeps what it returns
CallGetGraph ==
    /\ calls < MaxCalls
    /\ calls' = calls + 1
    /\ held = NoRef
    /\ held' = [object |-> graphObject, frozen |-> <<>>]
    /\ lastIndexed' = NoEntry
    /\ lastCall' = NoCall
    /\ midDrainReindex' = FALSE
    /\ dropped' = {}
    /\ UNCHANGED <<files, fileOrder, graph, indexingQueue, isIndexing, indexVersion,
                   fileHashes, initialized, drains, diagnostics, now, timerFired,
                   nextTicket, detectRuns, processed, owed, undisturbed, resumptions,
                   fileOps, graphObject, lastOp, client>>

\* a caller invokes reindexAll(); the object a caller holds and the service has let
\* go of keeps what it held
ReindexAllStep ==
    /\ calls < MaxCalls
    /\ calls' = calls + 1
    /\ \E r \in {ReindexAll([St EXCEPT !.drains =
                                  [i \in DOMAIN drains |->
                                      [drains[i] EXCEPT !.stale = TRUE]]])} :
           /\ Becomes(r)
           /\ owed' = Settle(owed, r)
           /\ dropped' = {indexingQueue[i].path : i \in DOMAIN indexingQueue}
                            \ ({r.queue[i].path : i \in DOMAIN r.queue}
                                   \cup {r.lastIndexed.path})
    /\ lastCall' = NoCall
    /\ processed' = {}
    /\ midDrainReindex' = (drains # <<>>)
    /\ undisturbed' = FALSE
    /\ held' = IF held # NoRef /\ held.object = graphObject
                THEN [held EXCEPT !.frozen = graph]
                ELSE held
    /\ UNCHANGED <<fileOps, timerFired, resumptions>>
CallReindexAll == ReindexAllStep /\ UNCHANGED <<lastOp, client>>

RemoveAt(seq, i) == SubSeq(seq, 1, i - 1) \o SubSeq(seq, i + 1, Len(seq))

\* the rest of _processIndexQueue after "await this._indexFile(filePath)": the loop
\* test, then either the next file or the finally block
Resume(s, i) ==
    LET s0 == [s EXCEPT !.drains = RemoveAt(s.drains, i)]
    IN  IF LoopTest(s0, s.drains[i].currentVersion)
        THEN LoopBody(s0, s.drains[i])
        ELSE Finally(s0)

\* a suspended activation of _processIndexQueue resumes
ResumeDrain(i) ==
    /\ i \in DOMAIN drains
    /\ \E r \in {Resume(St, i)} :
           /\ Becomes(r)
           /\ owed' = Settle(owed, r)
    /\ lastCall' = NoCall
    /\ resumptions' = 1 - resumptions
    /\ dropped' = {}
    /\ UNCHANGED <<timerFired, processed, midDrainReindex, undisturbed, fileOps, calls,
                   held, lastOp, client>>

Next ==
    \/ InitTimer
    \/ \E p \in Paths : \E c \in Writes(p) : FilesSet(p, FileDirent(c))
    \/ FilesSet(pB, FolderDirent)
    \/ \E p \in {pB, pC} : FilesDelete(p)
    \/ \E p \in {pB, pR} : \E c \in Passes(p) : CallQueueFile(p, c)
    \/ CallReindexAll
    \/ EditorEffect(pB)
    \/ CallGetGraph
    \/ \E i \in DOMAIN drains : ResumeDrain(i)

Spec == Init /\ [][Next]_vars

\* The same program under the scheduling the event loop guarantees: a suspended
\* activation whose awaited promise has resolved is resumed. The environment may
\* stop after any number of steps (it starts with any part of its budget used up).
LiveInit == InitService /\ fileOps \in 0..MaxFileOps /\ calls \in 0..MaxCalls

\* Under Next the steps that flip resumptions are exactly the ResumeDrain steps, and
\* one is enabled exactly when an activation is suspended, so weak fairness of
\* Resumption is weak fairness of \E i \in DOMAIN drains : ResumeDrain(i).
Resumption == drains # <<>> /\ resumptions' = 1 - resumptions

LiveSpec == LiveInit /\ [][Next]_vars /\ WF_resumptions(Resumption)

(***************************************************************************)
(* Callers of the diagnostics store (DiagnosticService.addDiagnostic, the  *)
(* editor panel, the diagnostics panel), over a service that is idle       *)
(***************************************************************************)
\* the service constructed over an empty file map
ClientInit == Init /\ fileOrder = <<>>

\* the DiagnosticData the callers pass: two ids, two paths, two versions of the data
StoreData ==
    { [id |-> id, filePath |-> filePath, line |-> 1, column |-> 1,
       message |-> v.message, severity |-> v.severity]
      : id \in {"d1", "d2"}, filePath \in {pA, pB},
        v \in { [message |-> "first", severity |-> SeverityNumber(SeverityError)],
                [message |-> "second", severity |-> SeverityString("warning")] } }

\* diagnosticService.addDiagnostic(data)
CallAddDiagnostic(data) ==
    /\ diagnostics' = ServiceAddDiagnostic(diagnostics, data)
    /\ lastOp' = [op |-> "addDiagnostic", arg |-> data, result |-> <<>>]
    /\ UNCHANGED <<indexVars, client>>

\* diagnosticsStore.removeDiagnostic(filePath, diagnosticId)
CallRemoveDiagnostic(filePath, diagnosticId) ==
    /\ diagnostics' = RemoveDiagnostic(diagnostics, filePath, diagnosticId)
    /\ lastOp' = [op |-> "removeDiagnostic", arg |-> <<filePath, diagnosticId>>,
                  result |-> <<>>]
    /\ UNCHANGED <<indexVars, client>>

\* diagnosticsStore.clearDiagnostics(filePath)
CallClearDiagnostics(filePath) ==
    /\ diagnostics' = ClearDiagnostics(diagnostics, filePath)
    /\ lastOp' = [op |-> "clearDiagnostics", arg |-> <<filePath>>, result |-> <<>>]
    /\ UNCHANGED <<indexVars, client>>

\* diagnosticsStore.clearDiagnostics()
CallClearAllDiagnostics ==
    /\ diagnostics' = ClearAllDiagnostics(diagnostics)
    /\ lastOp' = [op |-> "clearDiagnostics", arg |-> <<>>, result |-> <<>>]
    /\ UNCHANGED <<indexVars, client>>

StoreNext ==
    \/ \E data \in StoreData : CallAddDiagnostic(data)
    \/ \E filePath \in {pA, pB} : \E id \in {"d1", "d2"} : CallRemoveDiagnostic(filePath, id)
    \/ \E filePath \in {pA, pB} : CallClearDiagnostics(filePath)
    \/ CallClearAllDiagnostics

StoreSpec == ClientInit /\ [][StoreNext]_vars

(***************************************************************************)
(* DiagnosticNavigationService over the diagnostics store. Here a path is   *)
(* the sequence of the UTF-16 code units of its text.                       *)
(***************************************************************************)
\* "A.ts", "a.ts", "b.ts", "C.ts"
upperA == <<65, 46, 116, 115>>
lowerA == <<97, 46, 116, 115>>
lowerB == <<98, 46, 116, 115>>
upperC == <<67, 46, 116, 115>>
NavPaths == <<upperA, lowerA, lowerB, upperC>>

\* String.prototype.localeCompare as the engines with Intl compute it (the default
\* collation, for texts of ASCII letters, digits, '.' and '/'): the texts are
\* compared letter by letter without regard to case; texts that are equal that way
\* are told apart by case, the lower-case letter first. Negative, 0 or positive.
ToLower(c) == IF c \in 65..90 THEN c + 32 ELSE c

RECURSIVE PrimaryCompare(_, _, _)
PrimaryCompare(a, b, i) ==
    IF i > Len(a) /\ i > Len(b) THEN 0
    ELSE IF i > Len(a) THEN -1
    ELSE IF i > Len(b) THEN 1
    ELSE IF ToLower(a[i]) # ToLower(b[i]) THEN ToLower(a[i]) - ToLower(b[i])
    ELSE PrimaryCompare(a, b, i + 1)

RECURSIVE CaseCompare(_, _, _)
CaseCompare(a, b, i) ==
    IF i > Len(a) THEN 0
    ELSE IF a[i] # b[i] THEN b[i] - a[i]
    ELSE CaseCompare(a, b, i + 1)

LocaleCompare(a, b) ==
    The({ IF primary # 0 THEN primary ELSE CaseCompare(a, b, 1)
          : primary \in {PrimaryCompare(a, b, 1)} })

\* a > b on strings: the comparison of the code units
RECURSIVE GreaterThan(_, _, _)
GreaterThan(a, b, i) ==
    IF i > Len(a) THEN FALSE
    ELSE IF i > Len(b) THEN TRUE
    ELSE IF a[i] # b[i] THEN a[i] > b[i]
    ELSE GreaterThan(a, b, i + 1)

\* DiagnosticsStore.getDiagnostics(): Object.values(allDiagnostics).flat(). The lists
\* are concatenated in the order of NavPaths; the order of the keys does not reach
\* the sorted list, as the sort callback returns 0 for items of one list only.
RECURSIVE Flat(_, _)
Flat(store, i) ==
    IF i > Len(NavPaths) THEN <<>>
    ELSE ListOf(store, NavPaths[i]) \o Flat(store, i + 1)

GetDiagnostics(store) == Flat(store, 1)

\* the callback of diagnostics.sort in _getSortedDiagnostics
SortCallback(a, b) ==
    IF a.filePath # b.filePath THEN LocaleCompare(a.filePath, b.filePath)
    ELSE IF a.line # b.line THEN a.line - b.line
    ELSE a.column - b.column

\* Array.prototype.sort (stable), as an insertion sort
RECURSIVE Sort(_, _, _)
Sort(list, i, sorted) ==
    IF i > Len(list) THEN sorted
    ELSE Sort(list, i + 1,
              SelectSeq(sorted, LAMBDA e : SortCallback(e, list[i]) <= 0)
                  \o << list[i] >>
                  \o SelectSeq(sorted, LAMBDA e : SortCallback(e, list[i]) > 0))

\* the optional severityFilter argument, when it is left out
NoFilter == [undefined |-> TRUE]

\* _getSortedDiagnostics(severityFilter)
GetSortedDiagnostics(store, severityFilter) ==
    IF severityFilter = NoFilter
    THEN Sort(GetDiagnostics(store), 1, <<>>)
    ELSE Sort(SelectSeq(GetDiagnostics(store),
                        LAMBDA d : d.severity = IF IsString(severityFilter)
                                                THEN severityFilter.string
                                                ELSE FromSeverityEnum(severityFilter.number)),
              1, <<>>)

\* _isSamePosition
IsSamePosition(diagnostic, position) ==
    /\ diagnostic.filePath = position.filePath
    /\ diagnostic.line = position.line
    /\ diagnostic.column = position.column

\* _isAfterPosition
IsAfterPosition(diagnostic, position) ==
    IF diagnostic.filePath # position.filePath
    THEN GreaterThan(diagnostic.filePath, position.filePath, 1)
    ELSE IF diagnostic.line # position.line THEN diagnostic.line > position.line
    ELSE diagnostic.column > position.column

\* Array.prototype.findIndex, counted from 1; 0 stands for -1
FindIndexNext(list, position) ==
    IF \E i \in DOMAIN list : IsAfterPosition(list[i], position)
                                 /\ ~IsSamePosition(list[i], position)
    THEN CHOOSE i \in DOMAIN list :
            /\ IsAfterPosition(list[i], position) /\ ~IsSamePosition(list[i], position)
            /\ \A j \in 1..(i - 1) :
                  ~(IsAfterPosition(list[j], position) /\ ~IsSamePosition(list[j], position))
    ELSE 0

FindIndexPrevious(list, position) ==
    IF \E i \in DOMAIN list : IsAfterPosition(list[i], position)
                                 \/ IsSamePosition(list[i], position)
    THEN CHOOSE i \in DOMAIN list :
            /\ IsAfterPosition(list[i], position) \/ IsSamePosition(list[i], position)
            /\ \A j \in 1..(i - 1) :
                  ~(IsAfterPosition(list[j], position) \/ IsSamePosition(list[j], position))
    ELSE 0

\* the value null
Null == [id |-> "null"]

\* findNextDiagnostic(position, severityFilter)
FindNextDiagnostic(store, position, severityFilter) ==
    The({ IF allDiagnostics = <<>> THEN Null
          ELSE The({ IF currentIndex # 0 THEN allDiagnostics[currentIndex]
                     ELSE allDiagnostics[1]
                     : currentIndex \in {FindIndexNext(allDiagnostics, position)} })
          : allDiagnostics \in {GetSortedDiagnostics(store, severityFilter)} })

\* findPreviousDiagnostic(position, severityFilter)
FindPreviousDiagnostic(store, position, severityFilter) ==
    The({ IF allDiagnostics = <<>> THEN Null
          ELSE The({ IF currentIndex > 1 THEN allDiagnostics[currentIndex - 1]
                     ELSE allDiagnostics[Len(allDiagnostics)]
                     : currentIndex \in {FindIndexPrevious(allDiagnostics, position)} })
          : allDiagnostics \in {GetSortedDiagnostics(store, severityFilter)} })

\* the diagnostics the callers add: one in A.ts, two in b.ts, one in C.ts
NavData ==
    { [id |-> "n1", filePath |-> upperA, line |-> 1, column |-> 2,
       message |-> "first", severity |-> SeverityString("error")],
      [id |-> "n2", filePath |-> lowerB, line |-> 1, column |-> 2,
       message |-> "first", severity |-> SeverityString("warning")],
      [id |-> "n3", filePath |-> lowerB, line |-> 2, column |-> 1,
       message |-> "first", severity |-> SeverityNumber(SeverityError)],
      [id |-> "n4", filePath |-> upperC, line |-> 1, column |-> 2,
       message |-> "first", severity |-> SeverityString("error")] }

\* the positions the callers ask from, and the filters they pass
NavPositions ==
    { [filePath |-> NavPaths[i], line |-> line, column |-> column]
      : i \in DOMAIN NavPaths, line \in 1..2, column \in 1..2 }
NavFilters == {NoFilter, SeverityString("error"), SeverityNumber(SeverityWarning)}

\* diagnosticNavigationService.findNextDiagnostic(position, severityFilter)
CallFindNext(position, severityFilter) ==
    /\ lastOp' = [op |-> "findNextDiagnostic",
                  arg |-> [position |-> position, severityFilter |-> severityFilter],
                  result |-> FindNextDiagnostic(diagnostics, position, severityFilter)]
    /\ UNCHANGED diagnostics
    /\ UNCHANGED <<indexVars, client>>

\* diagnosticNavigationService.findPreviousDiagnostic(position, severityFilter)
CallFindPrevious(position, severityFilter) ==
    /\ lastOp' = [op |-> "findPreviousDiagnostic",
                  arg |-> [position |-> position, severityFilter |-> severityFilter],
                  result |-> FindPreviousDiagnostic(diagnostics, position, severityFilter)]
    /\ UNCHANGED diagnostics
    /\ UNCHANGED <<indexVars, client>>

NavNext ==
    \/ \E data \in NavData : CallAddDiagnostic(data)
    \/ \E position \in NavPositions : \E severityFilter \in NavFilters :
          CallFindNext(position, severityFilter)
    \/ \E position \in NavPositions : \E severityFilter \in NavFilters :
          CallFindPrevious(position, severityFilter)

NavSpec == ClientInit /\ [][NavNext]_vars

(***************************************************************************)
(* DiagnosticService.extractDiagnosticsFromOutput and the problem matchers  *)
(* the TypeScript and ESLint providers register. A text is a sequence of    *)
(* chunks: a digit, or a run of characters without a digit. A number is a   *)
(* record, so that NaN is a number too.                                     *)
(***************************************************************************)
Num(value) == [nan |-> FALSE, value |-> value]
NaN == [nan |-> TRUE, value |-> 0]

Digits == <<"0", "1", "2", "3", "4", "5", "6", "7", "8", "9">>
IsDigit(chunk) == \E k \in DOMAIN Digits : Digits[k] = chunk
DigitValue(chunk) == (CHOOSE k \in DOMAIN Digits : Digits[k] = chunk) - 1

\* parseInt(text, 10): the number the leading digits spell, NaN when there is none
RECURSIVE ParseDigits(_, _, _)
ParseDigits(text, i, value) ==
    IF i > Len(text) \/ ~IsDigit(text[i]) THEN Num(value)
    ELSE ParseDigits(text, i + 1, 10 * value + DigitValue(text[i]))

ParseInt(text) ==
    IF text = <<>> \/ ~IsDigit(text[1]) THEN NaN ELSE ParseDigits(text, 1, 0)

\* the patterns registered under 'typescript' and 'eslint' (a ProblemPattern names
\* the capture group of each field it extracts)
ProblemMatchers ==
    [typescript |-> [regexp |-> "TS_ERROR_REGEX", file |-> 1, line |-> 2, column |-> 3,
                     code |-> 4, message |-> 5],
     eslint |-> [regexp |-> "ESLINT_ERROR_REGEX", file |-> 1, line |-> 2, column |-> 3,
                 severity |-> 4, message |-> 5, code |-> 6]]

\* lines of tool output, each with the capture groups of the expression it matches
\*   src/a.ts:3:7: error Unexpected var [no-var]          (and warning, info)
\*   src/a.ts(12,1): error TS2304: Cannot find name 'x'
\*   Done
OutputLine(regexp, text, groups) == [matches |-> regexp, text |-> text, groups |-> groups]
LintLine(severity) ==
    OutputLine("ESLINT_ERROR_REGEX",
               <<"src/a.ts:", "3", ":", "7", ": ", severity, " Unexpected var [no-var]">>,
               << <<"src/a.ts">>, <<"3">>, <<"7">>, <<severity>>, <<"Unexpected var">>,
                  <<"[no-var]">> >>)
CompilerLine ==
    OutputLine("TS_ERROR_REGEX",
               <<"src/a.ts(", "1", "2", ",", "1", "): error TS", "2", "3", "0", "4",
                 ": Cannot find name 'x'">>,
               << <<"src/a.ts">>, <<"1", "2">>, <<"1">>, <<"2", "3", "0", "4">>,
                  <<"Cannot find name 'x'">> >>)
OtherLine == OutputLine("none", <<"Done">>, <<>>)
OutputLines == {LintLine("error"), LintLine("warning"), LintLine("info"), CompilerLine,
                OtherLine}

\* pattern.regexp.exec(line): the capture groups, << >> when the line does not match
Exec(regexp, line) == IF line.matches = regexp THEN line.groups ELSE <<>>

\* pattern.<field> !== undefined && match[pattern.<field>]
HasGroup(pattern, field, match) ==
    field \in DOMAIN pattern /\ match[pattern[field]] # <<>>

\* the severity of one matching line
ExtractedSeverity(pattern, match) ==
    The({ IF ~severityIndex.nan /\ severityIndex.value = SeverityError THEN "error"
          ELSE IF ~severityIndex.nan /\ severityIndex.value = SeverityWarning THEN "warning"
          ELSE "info"
          : severityIndex \in { IF HasGroup(pattern, "severity", match)
                                THEN ParseInt(match[pattern.severity])
                                ELSE Num(SeverityError) } })

\* the DiagnosticData of one matching line (the id without the suffix generateId()
\* appends)
ExtractedDiagnostic(pattern, line, match, filePath, source) ==
    [id |-> <<source, "-">> \o filePath,
     filePath |-> filePath,
     line |-> IF HasGroup(pattern, "line", match) THEN ParseInt(match[pattern.line])
              ELSE Num(1),
     column |-> IF HasGroup(pattern, "column", match) THEN ParseInt(match[pattern.column])
                ELSE Num(1),
     message |-> IF HasGroup(pattern, "message", match) THEN match[pattern.message]
                 ELSE line.text,
     severity |-> ExtractedSeverity(pattern, match),
     source |-> source]

\* the loop over the lines of the output; basePath "" stands for no basePath too
RECURSIVE ExtractLines(_, _, _, _, _, _)
ExtractLines(pattern, output, i, source, basePath, extracted) ==
    IF i > Len(output) THEN extracted
    ELSE The({ IF match = <<>> \/ ~HasGroup(pattern, "file", match)
               THEN ExtractLines(pattern, output, i + 1, source, basePath, extracted)
               ELSE ExtractLines(pattern, output, i + 1, source, basePath,
                       Append(extracted,
                              ExtractedDiagnostic(pattern, output[i], match,
                                  IF basePath # <<>>
                                  THEN basePath \o <<"/">> \o match[pattern.file]
                                  ELSE match[pattern.file],
                                  source)))
               : match \in {Exec(pattern.regexp, output[i])} })

\* extractDiagnosticsFromOutput(output, matcherId, source, basePath)
ExtractDiagnosticsFromOutput(output, matcherId, source, basePath) ==
    IF matcherId \notin DOMAIN ProblemMatchers THEN <<>>
    ELSE ExtractLines(ProblemMatchers[matcherId], output, 1, source, basePath, <<>>)

\* the outputs the callers pass: one or two lines
Outputs == {<<l>> : l \in OutputLines} \cup {<<l, m>> : l, m \in OutputLines}

\* ESLintDiagnosticProvider.processLintOutput, TypeScriptDiagnosticProvider.
\* processCompilerOutput, or a caller with a matcher id nobody registered
CallExtractDiagnostics(output, matcherId, basePath) ==
    /\ lastOp' = [op |-> "extractDiagnosticsFromOutput",
                  arg |-> [output |-> output, matcherId |-> matcherId,
                           basePath |-> basePath],
                  result |-> ExtractDiagnosticsFromOutput(output, matcherId, matcherId,
                                                          basePath)]
    /\ UNCHANGED diagnostics
    /\ UNCHANGED <<indexVars, client>>

ExtractNext ==
    \E output \in Outputs : \E matcherId \in {"eslint", "typescript", "jest"} :
    \E basePath \in {<<>>, <<"/home/project">>} :
        CallExtractDiagnostics(output, matcherId, basePath)

ExtractSpec == ClientInit /\ [][ExtractNext]_vars

(***************************************************************************)
(* DiagnosticService.updateFileContext and its cache, path -> context       *)
(* (the timestamps Date.now() supplies are left out of a context)           *)
(***************************************************************************)
\* context.history.slice(-5)
LastFive(history) ==
    IF Len(history) > 5 THEN SubSeq(history, Len(history) - 4, Len(history)) ELSE history

\* updateFileContext(filePath, currentContent, originalContent?)
\* (UpdateFileContextAssign: with the last test reduced to "if (originalContent)",
\* for comparison)
UpdateFileContextAssign(cache, filePath, currentContent, originalContent) ==
    LET context == IF filePath \in DOMAIN cache THEN cache[filePath]
                   ELSE [originalContent |-> originalContent, history |-> <<>>]
    IN  SetKey(cache, filePath,
               [originalContent |-> IF Truthy(originalContent)
                                    THEN originalContent ELSE context.originalContent,
                history |-> LastFive(Append(context.history, currentContent))])
UpdateFileContext(cache, filePath, currentContent, originalContent) ==
    LET context == IF filePath \in DOMAIN cache THEN cache[filePath]
                   ELSE [originalContent |-> originalContent, history |-> <<>>]
    IN  SetKey(cache, filePath,
               [originalContent |-> IF ~Truthy(context.originalContent)
                                       /\ Truthy(originalContent)
                                    THEN originalContent ELSE context.originalContent,
                history |-> LastFive(Append(context.history, currentContent))])

\* the texts the editor passes as original content: "", the texts of a.ts and b.ts
\* (and no argument: undefined)
ContextTexts == {cEmpty, cA, cB}
\* the texts the editor holds as current content: a.ts goes between two texts, b.ts
\* is saved with the same text every time
ContextCurrent(filePath) == IF filePath = pA THEN {cA, cB} ELSE {cB}

\* diagnosticService.updateFileContext(filePath, currentContent, originalContent)
CallUpdateFileContext(filePath, currentContent, originalContent) ==
    /\ client' = [client EXCEPT
                    !.fileContextCache =
                        UpdateFileContext(@, filePath, currentContent, originalContent),
                    !.firstOriginal =
                        IF filePath \notin DOMAIN @ /\ Truthy(originalContent)
                        THEN SetKey(@, filePath, originalContent) ELSE @]
    /\ lastOp' = [op |-> "updateFileContext",
                  arg |-> [filePath |-> filePath, currentContent |-> currentContent,
                           originalContent |-> originalContent],
                  result |-> <<>>]
    /\ UNCHANGED diagnostics
    /\ UNCHANGED indexVars

ContextNext ==
    \E filePath \in {pA, pB} : \E currentContent \in ContextCurrent(filePath) :
    \E originalContent \in ContextTexts \cup {Undefined} :
        CallUpdateFileContext(filePath, currentContent, originalContent)

ContextSpec == ClientInit /\ [][ContextNext]_vars

(***************************************************************************)
(* DiagnosticService.analyzeChanges: the rename heuristic                   *)
(* A token is a sequence of characters; a text is here the sequence of its  *)
(* tokens (what lies between two tokens plays no part in the heuristic).    *)
(***************************************************************************)
\* the tokens of the texts: ab, ac, abcd, abxy, axyd, xyzw
Tokens == { <<"a", "b">>, <<"a", "c">>, <<"a", "b", "c", "d">>, <<"a", "b", "x", "y">>,
            <<"a", "x", "y", "d">>, <<"x", "y", "z", "w">> }

\* the texts: "", one token, two tokens
TokenTexts == {<<>>} \cup {<<token>> : token \in Tokens}
                     \cup {<<token1, token2>> : token1 \in Tokens, token2 \in Tokens}

\* _extractTokens: a Set, which keeps the order of first insertion
RECURSIVE ExtractTokens(_, _)
ExtractTokens(content, i) ==
    IF i > Len(content) THEN <<>>
    ELSE LET rest == ExtractTokens(content, i + 1)
         IN  <<content[i]>> \o SelectSeq(rest, LAMBDA token : token # content[i])

Has(tokens, token) == \E i \in DOMAIN tokens : tokens[i] = token
Max(a, b) == IF a > b THEN a ELSE b
Min(a, b) == IF a < b THEN a ELSE b
Abs(a) == IF a < 0 THEN 0 - a ELSE a

\* _tokenSimilarity: the score as the fraction matches / of
\* (x / y > 0.5 is 2 * x > y; the division of two small integers by each other
\* gives 0.5 exactly when 2 * x = y)
TokenSimilarity(token1, token2) ==
    LET len1 == Len(token1)
        len2 == Len(token2)
        minLen == Min(len1, len2)
    IN  IF token1 = token2 THEN [matches |-> 1, of |-> 1]
        ELSE IF 2 * Abs(len1 - len2) > Max(len1, len2) THEN [matches |-> 0, of |-> 1]
        ELSE [matches |-> Cardinality({i \in 1..minLen : token1[i] = token2[i]}),
              of |-> Max(len1, len2)]

\* score > 0.5 and score >= 0.5
MoreThanHalf(score) == 2 * score.matches > score.of
AtLeastHalf(score) == 2 * score.matches >= score.of

\* _findRenamedTokens: the pairs (old name, new name), in the order of the old names
\* (FindRenamedTokensAtLeast: with >= 0.5 as the test, for comparison)
FindRenamedTokensAtLeast(originalTokens, currentTokens) ==
    LET removedTokens == SelectSeq(originalTokens, LAMBDA token : ~Has(currentTokens, token))
        addedTokens == SelectSeq(currentTokens, LAMBDA token : ~Has(originalTokens, token))
        paired == [i \in DOMAIN removedTokens |->
                      [oldName |-> removedTokens[i], newName |-> addedTokens[i]]]
    IN  IF Len(removedTokens) > 0 /\ Len(removedTokens) = Len(addedTokens)
        THEN SelectSeq(paired, LAMBDA pair :
                 AtLeastHalf(TokenSimilarity(pair.oldName, pair.newName)))
        ELSE <<>>
FindRenamedTokens(originalTokens, currentTokens) ==
    LET removedTokens == SelectSeq(originalTokens, LAMBDA token : ~Has(currentTokens, token))
        addedTokens == SelectSeq(currentTokens, LAMBDA token : ~Has(originalTokens, token))
        paired == [i \in DOMAIN removedTokens |->
                      [oldName |-> removedTokens[i], newName |-> addedTokens[i]]]
    IN  IF Len(removedTokens) > 0 /\ Len(removedTokens) = Len(addedTokens)
        THEN SelectSeq(paired, LAMBDA pair :
                 MoreThanHalf(TokenSimilarity(pair.oldName, pair.newName)))
        ELSE <<>>

\* the rename diagnostics of analyzeChanges: for every renamed pair one diagnostic per
\* occurrence of the new name in the current content (index: the place of the
\* occurrence, in tokens)
RECURSIVE RenameDiagnostics(_, _, _)
RenameDiagnostics(renamed, currentContent, i) ==
    IF i > Len(renamed) THEN <<>>
    ELSE LET occurrences == SelectSeq([k \in DOMAIN currentContent |-> k],
                                      LAMBDA k : currentContent[k] = renamed[i].newName)
         IN  [k \in DOMAIN occurrences |->
                 [code |-> "rename-detection", index |-> occurrences[k],
                  oldName |-> renamed[i].oldName, newName |-> renamed[i].newName,
                  severity |-> SeverityInfo]]
             \o RenameDiagnostics(renamed, currentContent, i + 1)

\* analyzeChanges(filePath, currentContent): [] without a context or with an empty
\* original, else the rename diagnostics (the structural-change diagnostic that may
\* follow them counts braces, which the texts here do not hold). renamedTokens is
\* what _findRenamedTokens returned.
AnalyzeChanges(cache, filePath, currentContent) ==
    IF filePath \notin DOMAIN cache \/ ~Truthy(cache[filePath].originalContent)
    THEN [renamedTokens |-> <<>>, diagnostics |-> <<>>]
    ELSE LET renamedTokens ==
                 FindRenamedTokens(ExtractTokens(cache[filePath].originalContent, 1),
                                   ExtractTokens(currentContent, 1))
         IN  [renamedTokens |-> renamedTokens,
              diagnostics |-> RenameDiagnostics(renamedTokens, currentContent, 1)]

\* the editor opens a.ts: updateFileContext(filePath, value, originalContent) with the
\* text of the file as value and as original
OpenFile(originalContent) ==
    /\ pA \notin DOMAIN client.fileContextCache
    /\ client' = [client EXCEPT
                    !.fileContextCache =
                        UpdateFileContext(@, pA, originalContent, originalContent),
                    !.firstOriginal =
                        IF Truthy(originalContent) THEN SetKey(@, pA, originalContent)
                        ELSE @]
    /\ lastOp' = [op |-> "updateFileContext",
                  arg |-> [filePath |-> pA, currentContent |-> originalContent,
                           originalContent |-> originalContent],
                  result |-> <<>>]
    /\ UNCHANGED diagnostics
    /\ UNCHANGED indexVars

\* diagnosticService.analyzeChanges(filePath, currentContent) for the open file
CallAnalyzeChanges(currentContent) ==
    /\ pA \in DOMAIN client.fileContextCache
    /\ lastOp' = [op |-> "analyzeChanges",
                  arg |-> [filePath |-> pA, currentContent |-> currentContent,
                           originalContent |-> client.fileContextCache[pA].originalContent],
                  result |-> AnalyzeChanges(client.fileContextCache, pA, currentContent)]
    /\ UNCHANGED <<diagnostics, client>>
    /\ UNCHANGED indexVars

ChangesNext ==
    \/ \E originalContent \in TokenTexts : OpenFile(originalContent)
    \/ \E currentContent \in TokenTexts : CallAnalyzeChanges(currentContent)

ChangesSpec == ClientInit /\ [][ChangesNext]_vars

(***************************************************************************)
(* TypeScriptDiagnosticProvider.processFile                                 *)
(* A text is here a sequence of pieces, each one a phrase a detector looks  *)
(* for or a piece no detector matches. The call is followed through the     *)
(* loops of _detectDeprecatedAPIs one evaluation of a loop test at a time.  *)
(***************************************************************************)
\* const deprecatedAPIs: the phrases each pattern matches; none of the patterns has
\* the g flag
DeprecatedAPIs ==
    << [phrases |-> {"componentWillMount", "componentWillReceiveProps",
                     "componentWillUpdate"}, code |-> "0001", global |-> FALSE],
       [phrases |-> {"React.createClass"}, code |-> "0002", global |-> FALSE],
       [phrases |-> {"findDOMNode"}, code |-> "0003", global |-> FALSE],
       [phrases |-> {"new Buffer("}, code |-> "0004", global |-> FALSE],
       [phrases |-> {".substr("}, code |-> "0005", global |-> FALSE] >>

\* the pieces of the texts, and the texts: at most two pieces
Pieces == {"componentWillMount", "findDOMNode", ".substr(", "as any", "x"}
ProviderTexts == {<<>>} \cup {<<piece>> : piece \in Pieces}
                        \cup {<<piece1, piece2>> : piece1 \in Pieces, piece2 \in Pieces}

\* the diagnostics array is followed up to MaxDiagnostics elements: a push to an
\* array of that length leaves it as it is
MaxDiagnostics == 3
PushDiagnostic(list, diagnostic) ==
    IF Len(list) < MaxDiagnostics THEN Append(list, diagnostic) ELSE list

\* pattern.exec(content): the index of the first match at or after the place the
\* search starts from, 0 for null. A pattern without the g flag starts from the
\* beginning of the text at every call; one with it starts from lastIndex.
ExecPattern(api, content, lastIndex) ==
    LET from == IF api.global THEN lastIndex ELSE 1
        hits == {i \in DOMAIN content : i >= from /\ content[i] \in api.phrases}
    IN  IF hits = {} THEN 0 ELSE CHOOSE i \in hits : \A j \in hits : i <= j

\* _detectUnsafeAnyUsage (a g pattern): one Warning for every "as any"
RECURSIVE DetectUnsafeAnyUsage(_, _, _)
DetectUnsafeAnyUsage(content, i, list) ==
    IF i > Len(content) THEN list
    ELSE DetectUnsafeAnyUsage(content, i + 1,
            IF content[i] = "as any"
            THEN PushDiagnostic(list, [code |-> "2020", index |-> i, severity |-> SeverityWarning,
                             tags |-> <<>>])
            ELSE list)

\* processFile(filePath, content) up to the first loop test of _detectDeprecatedAPIs
\* (the texts hold nothing _detectNonNullAssertions matches). The thread runs one
\* call at a time.
CallProcessFile(content) ==
    /\ client.run.pc # "deprecated"
    /\ client' = [client EXCEPT
                    !.run = [pc |-> "deprecated", content |-> content, api |-> 1,
                             lastIndex |-> 1,
                             diagnostics |-> DetectUnsafeAnyUsage(content, 1, <<>>),
                             parity |-> 0]]
    /\ lastOp' = [op |-> "processFile", arg |-> content, result |-> <<>>]
    /\ UNCHANGED diagnostics
    /\ UNCHANGED indexVars

\* one evaluation of `(match = api.pattern.exec(content)) !== null` and, on a match,
\* the body of the while loop; on null the for loop goes to the next pattern
\* (parity: whether the loop tests evaluated so far are even or odd in number)
DeprecatedStep ==
    /\ client.run.pc = "deprecated"
    /\ client.run.api <= Len(DeprecatedAPIs)
    /\ \E match \in {ExecPattern(DeprecatedAPIs[client.run.api], client.run.content,
                                 client.run.lastIndex)} :
          client' = [client EXCEPT
                       !.run = IF match = 0
                               THEN [@ EXCEPT !.api = @ + 1, !.lastIndex = 1,
                                              !.parity = 1 - @]
                               ELSE [@ EXCEPT
                                       !.parity = 1 - @,
                                       !.lastIndex =
                                           IF DeprecatedAPIs[client.run.api].global
                                           THEN match + 1 ELSE @,
                                       !.diagnostics =
                                           PushDiagnostic(@, [code |-> DeprecatedAPIs[client.run.api].code,
                                                    index |-> match,
                                                    severity |-> SeverityWarning,
                                                    tags |-> <<2>>])]]
    /\ lastOp' = [op |-> "processFile", arg |-> client.run.content, result |-> <<>>]
    /\ UNCHANGED diagnostics
    /\ UNCHANGED indexVars

\* after the last pattern: _detectTypeIssues (the texts hold nothing it matches) and
\* `return diagnostics`
ReturnProcessFile ==
    /\ client.run.pc = "deprecated"
    /\ client.run.api > Len(DeprecatedAPIs)
    /\ client' = [client EXCEPT !.run.pc = "returned"]
    /\ lastOp' = [op |-> "processFile returns", arg |-> client.run.content,
                  result |-> client.run.diagnostics]
    /\ UNCHANGED diagnostics
    /\ UNCHANGED indexVars

ProviderStep == DeprecatedStep \/ ReturnProcessFile

ProviderNext ==
    \/ \E content \in ProviderTexts : CallProcessFile(content)
    \/ DeprecatedStep
    \/ ReturnProcessFile

ProviderSpec == ClientInit /\ [][ProviderNext]_vars

\* a call that has started keeps running: the thread executes its next step
ProviderLiveSpec == ProviderSpec /\ WF_vars(ProviderStep)

(***************************************************************************)
(* Stepping through the diagnostics with findNextDiagnostic                 *)
(***************************************************************************)
\* the diagnostics of the tour: one in a.ts, three in b.ts, two of them at 1:2
\* (all paths in lower case)
TourData ==
    { [id |-> "t1", filePath |-> lowerA, line |-> 1, column |-> 2,
       message |-> "first", severity |-> SeverityString("error")],
      [id |-> "t2", filePath |-> lowerB, line |-> 1, column |-> 2,
       message |-> "first", severity |-> SeverityString("warning")],
      [id |-> "t3", filePath |-> lowerB, line |-> 1, column |-> 2,
       message |-> "second", severity |-> SeverityString("error")],
      [id |-> "t4", filePath |-> lowerB, line |-> 2, column |-> 1,
       message |-> "first", severity |-> SeverityString("error")] }

PositionOf(diagnostic) ==
    [filePath |-> diagnostic.filePath, line |-> diagnostic.line,
     column |-> diagnostic.column]

\* the caller adds a diagnostic while it is not stepping through them
TourAdd(data) ==
    /\ client.tour.active => client.tour.done
    /\ CallAddDiagnostic(data)

\* the caller starts from the position of a diagnostic of the store
StartTour(id) ==
    /\ client.tour.active => client.tour.done
    /\ \E list \in {GetSortedDiagnostics(diagnostics, NoFilter)} :
       \E i \in DOMAIN list :
          /\ list[i].id = id
          /\ client' = [client EXCEPT
                          !.tour = [active |-> TRUE, done |-> FALSE, visited |-> {},
                                    start |-> PositionOf(list[i]),
                                    position |-> PositionOf(list[i])]]
    /\ lastOp' = [op |-> "start", arg |-> id, result |-> <<>>]
    /\ UNCHANGED diagnostics
    /\ UNCHANGED indexVars

\* findNextDiagnostic(position) with the position of the diagnostic the last call
\* returned; the caller stops when it is given a diagnostic at its start
TourStep ==
    /\ client.tour.active
    /\ ~client.tour.done
    /\ \E result \in {FindNextDiagnostic(diagnostics, client.tour.position, NoFilter)} :
          /\ client' = [client EXCEPT
                          !.tour.visited = @ \cup {result.id},
                          !.tour.position = PositionOf(result),
                          !.tour.done = IsSamePosition(result, client.tour.start)]
          /\ lastOp' = [op |-> "findNextDiagnostic",
                        arg |-> [position |-> client.tour.position,
                                 severityFilter |-> NoFilter],
                        result |-> result]
    /\ UNCHANGED diagnostics
    /\ UNCHANGED indexVars

TourNext ==
    \/ \E data \in TourData : TourAdd(data)
    \/ \E data \in TourData : StartTour(data.id)
    \/ TourStep

TourSpec == ClientInit /\ [][TourNext]_vars

(***************************************************************************)
(* WorkspaceIndexStore (stores/workspaceIndex.ts) over the index service    *)
(***************************************************************************)
\* Object.keys(graph.files).length, Object.keys(graph.symbols).length,
\* graph.dependencies.length
GraphCounts(g) ==
    [files |-> Cardinality(DOMAIN g.files), symbols |-> Len(g.symbols),
     dependencies |-> Len(g.dependencies)]

\* Math.min(99, progress + 5)
\* (NextProgressTo100: with 100 as the cap, for comparison)
NextProgressTo100(progress) == Min(100, progress + 5)
NextProgress(progress) == Min(99, progress + 5)

\* forceReindex(): the atoms are set, then reindexAll() runs (it does not throw: the
\* catch block is never entered). A caller may run between two continuations of a
\* drain.
ForceReindex ==
    /\ ReindexAllStep
    /\ client' = [client EXCEPT
                    !.indexStore = [isIndexing |-> TRUE, progress |-> 0,
                                    stats |-> [files |-> 0, symbols |-> 0,
                                               dependencies |-> 0]]]
    /\ lastOp' = [op |-> "forceReindex", arg |-> <<>>, result |-> <<>>]

\* updateIndexingStatus, the callback of setInterval(..., 500): a timer callback
\* starts only when no continuation of a drain is pending
UpdateIndexingStatus ==
    /\ drains = <<>>
    /\ client' = [client EXCEPT
                    !.indexStore =
                        IF ~@.isIndexing THEN @
                        ELSE IF /\ @.stats.files = GraphCounts(graph).files
                                /\ @.stats.symbols = GraphCounts(graph).symbols
                        THEN [@ EXCEPT !.isIndexing = FALSE, !.progress = 100]
                        ELSE [@ EXCEPT !.progress = NextProgress(@)]]
    /\ lastOp' = [op |-> "updateIndexingStatus", arg |-> <<>>,
                  result |-> client.indexStore.isIndexing]
    /\ UNCHANGED diagnostics
    /\ UNCHANGED indexVars

\* the callback of setInterval(..., 5000): _updateGraphStats(getGraph())
\* (lastGraphUpdate, a timestamp, is left out)
UpdateGraphStats ==
    /\ drains = <<>>
    /\ client' = [client EXCEPT !.indexStore.stats = GraphCounts(graph)]
    /\ lastOp' = [op |-> "_updateGraphStats", arg |-> <<>>, result |-> <<>>]
    /\ UNCHANGED diagnostics
    /\ UNCHANGED indexVars

IndexStoreNext ==
    \/ InitTimer
    \/ \E i \in DOMAIN drains : ResumeDrain(i)
    \/ \E p \in {pB} : \E c \in Writes(p) : FilesSet(p, FileDirent(c))
    \/ ForceReindex
    \/ UpdateIndexingStatus
    \/ UpdateGraphStats

IndexStoreSpec == Init /\ [][IndexStoreNext]_vars

(***************************************************************************)
(* Properties                                                              *)
(***************************************************************************)
\* no drain is running and nothing is queued
Quiescent == drains = <<>> /\ ~isIndexing /\ indexingQueue = <<>>

\* C1: at most one activation of the _processIndexQueue loop exists at any time, and
\* while one is suspended at its await the _isIndexing flag is set, so every
\* _processIndexQueue call made meanwhile returns at its guard.
C1_SingleDrain == Len(drains) <= 1 /\ (drains # <<>> => isIndexing)

\* queueFileForIndexing pushed a path and called _processIndexQueue while a drain
\* was suspended: the call indexed nothing and the one drain is still the only one
C1_Witness ==
    /\ Len(drains) = 1
    /\ lastCall # NoCall
    /\ lastIndexed = NoEntry
    /\ \E i \in DOMAIN indexingQueue :
          /\ indexingQueue[i].path = lastCall.path
          /\ indexingQueue[i].ticket = nextTicket - 1

\* C9: every path passed to _indexFile was appended after the path the same drain
\* passed before it and before every path still queued, so a drain takes paths in
\* the order of their appends, those appended during the drain included.
C9_Fifo ==
    lastIndexed # NoEntry =>
        /\ lastIndexed.prev < lastIndexed.ticket
        /\ \A i \in DOMAIN indexingQueue : lastIndexed.ticket < indexingQueue[i].ticket

\* a drain passes a path that was appended while it was running, after an earlier
\* one, with later appends still waiting
C9_Witness ==
    /\ lastIndexed # NoEntry
    /\ lastIndexed.prev > 0
    /\ lastIndexed.during
    /\ indexingQueue # <<>>

\* C10: the indexing queue never holds a path twice.
C10_NoDuplicates ==
    \A i, j \in DOMAIN indexingQueue :
        indexingQueue[i].path = indexingQueue[j].path => i = j

\* queueFileForIndexing(p) without content was called for a path queued earlier and
\* the queue still holds that earlier entry
C10_Witness ==
    /\ lastCall # NoCall
    /\ lastCall.content = Undefined
    /\ \E i \in DOMAIN indexingQueue :
          /\ indexingQueue[i].path = lastCall.path
          /\ indexingQueue[i].ticket < nextTicket - 1

\* C2: a reindexAll() made while a drain is in flight bumps the version counter, so
\* the drain's captured version differs from _indexVersion from then on, and that
\* drain passes no further path to _indexFile.
C2_StaleDrainStops ==
    /\ \A i \in DOMAIN drains : drains[i].stale => drains[i].currentVersion # indexVersion
    /\ ~lastIndexed.stale

\* the drain to completion, from a state with at most one suspended activation
RECURSIVE RunToQuiescence(_)
RunToQuiescence(s) == IF s.drains = <<>> THEN s ELSE RunToQuiescence(Resume(s, 1))

\* a quiescent service over the current file map
QuiescentService ==
    [files |-> files, fileOrder |-> fileOrder, graph |-> EmptyGraph, queue |-> <<>>,
     isIndexing |-> FALSE, indexVersion |-> 0, fileHashes |-> <<>>, initialized |-> TRUE,
     drains |-> <<>>, diagnostics |-> <<>>, now |-> 1, nextTicket |-> 1,
     detectRuns |-> 0, lastIndexed |-> NoEntry, threw |-> FALSE, graphObject |-> 1]

\* the final state of reindexAll() run from a quiescent service
CleanReindex == RunToQuiescence(ReindexAll(QuiescentService))

\* what getGraph() and the hash cache show, without timestamps and key order
Observable(s) ==
    [files |-> [k \in DOMAIN s.graph.files |->
                   [path |-> s.graph.files[k].path, symbols |-> s.graph.files[k].symbols]],
     symbols |-> Range(s.graph.symbols),
     dependencies |-> Range(s.graph.dependencies),
     fileHashes |-> s.fileHashes]

\* C3: when reindexAll() was triggered inside a drain and the service is quiescent
\* again, its files, symbols, dependency edges (with weights) and file hashes equal
\* those of a reindexAll() run from a quiescent service over the same file map.
C3_EqualsCleanReindex ==
    (midDrainReindex /\ drains = <<>>) => Observable(St) = Observable(CleanReindex)

\* C4: after initialization every indexable file the file-map handler saw with a new
\* or changed content hash is enqueued and indexed: once the service is quiescent
\* no such path is still waiting for its indexing pass.
C4_ChangedFilesIndexed == drains = <<>> => owed = {}

\* the symbols the FileNode of filePath lists as its own
OwnedSymbols(g, filePath) ==
    IF FileId(filePath) \in DOMAIN g.files
    THEN Range(g.files[FileId(filePath)].symbols) ELSE {}

\* C5: when the file map notifies the service that an indexed path is gone (deleted,
\* or no longer of type file), the graph afterwards has no FileNode file:<path>, none
\* of the symbols that file owned and no edge from or to file:<path>, and the
\* diagnostics list of the path is empty.
C5_RemovedFileLeavesNoTrace ==
    [][\A p \in Paths :
          (/\ initialized
           /\ files' # files
           /\ FileFound(St, p)
           /\ FileId(p) \in DOMAIN graph.files
           /\ IF p \in DOMAIN files' THEN files'[p].type # "file" ELSE TRUE)
          => /\ FileId(p) \notin DOMAIN graph'.files
             /\ \A i \in DOMAIN graph'.symbols :
                   graph'.symbols[i].id \notin OwnedSymbols(graph, p)
             /\ \A i \in DOMAIN graph'.dependencies :
                   /\ graph'.dependencies[i].source # FileId(p)
                   /\ graph'.dependencies[i].target # FileId(p)
             /\ IF p \in DOMAIN diagnostics' THEN diagnostics'[p] = <<>> ELSE TRUE]_vars

\* C6: a queueFileForIndexing(p, c) that repeats, with the same content (empty
\* content included), a call the service has finished processing changes nothing:
\* nothing is enqueued, no drain starts, the graph, the diagnostics and the hash cache
\* stay as they are and diagnostic detection does not run.
C6_SameContentIsNoOp ==
    [][(/\ lastCall' # NoCall
        /\ lastCall'.content # Undefined
        /\ <<lastCall'.path, lastCall'.content>> \in processed
        /\ drains = <<>>)
       => UNCHANGED <<graph, indexingQueue, diagnostics, detectRuns, fileHashes,
                      drains, now>>]_vars

\* C8: once the _initializeWorkspace pass run by the constructor's timer and the
\* drain it started have finished, every indexable entry of type file has its
\* FileNode; and no path with a non-indexable extension is ever queued or indexed.
C8_InitializationIndexesAll ==
    /\ (undisturbed /\ drains = <<>>) =>
          \A p \in DOMAIN files : IsIndexableFile(St, p) => FileId(p) \in DOMAIN graph.files
    /\ \A i \in DOMAIN indexingQueue : ShouldIndexFile(indexingQueue[i].path)
    /\ lastIndexed # NoEntry => ShouldIndexFile(lastIndexed.path)

\* the file map has stopped changing
FileMapStable == fileOps = MaxFileOps

\* every path the model can put in the queue: the file-map paths and the fallback
\* name of the unresolved import './b'
QueueablePaths == Paths \cup {<<"src", ".", "b", ".jsx">>}

\* C7 as stated: once the file map has stopped changing, every queued path is
\* eventually passed to _indexFile and the service eventually is quiescent
\* (isIndexing = false, empty queue).
C7_EveryQueuedPathIndexed ==
    /\ FileMapStable ~> Quiescent
    /\ \A p \in QueueablePaths :
          (FileMapStable /\ InQueue(St, p)) ~> (lastIndexed.path = p)

\* C7, amended: once the file map has stopped changing, every queued path is
\* eventually passed to _indexFile unless a reindexAll() discards it from the
\* queue first, and the service eventually is quiescent.
C7_Terminates ==
    /\ FileMapStable ~> Quiescent
    /\ \A p \in QueueablePaths :
          (FileMapStable /\ InQueue(St, p)) ~> (lastIndexed.path = p \/ p \in dropped)

\* after the file map stopped changing, a drain passes to _indexFile a path that
\* import discovery appended during the drain and that names no file
C7_Witness ==
    /\ FileMapStable
    /\ lastIndexed # NoEntry
    /\ lastIndexed.during
    /\ lastIndexed.path \notin DOMAIN files
    /\ indexingQueue = <<>>

\* C11: the dependency list never holds two edges with the same (source, target)
\* pair, and every edge has weight >= 1, whatever indexing passes, re-indexing
\* passes, removals and reindexAll() calls came before.
C11_UniqueEdges ==
    /\ \A i, j \in DOMAIN graph.dependencies :
          (/\ graph.dependencies[i].source = graph.dependencies[j].source
           /\ graph.dependencies[i].target = graph.dependencies[j].target) => i = j
    /\ \A i \in DOMAIN graph.dependencies : graph.dependencies[i].weight >= 1

\* a file with two imports of one module went through a second indexing pass: the
\* pair was detected four times and its one edge carries all four
C11_Witness ==
    /\ calls > 0
    /\ \E i \in DOMAIN graph.dependencies :
          /\ graph.dependencies[i].source = FileId(pB)
          /\ graph.dependencies[i].target = FileId(pC)
          /\ graph.dependencies[i].weight >= 4

\* the file id an import specifier stands for in _analyzeImports: the resolved
\* project path, or the virtual node of an external module
ImportTargetId(fileKeys, filePath, importPath) ==
    The({ IF resolvedPath = None THEN FileId(<<"node_modules">> \o importPath)
          ELSE FileId(resolvedPath)
          : resolvedPath \in {ResolveImportPath(fileKeys, filePath, importPath)} })

\* the number of import statements of a text that name the module targetId
ImportCount(fileKeys, filePath, content, targetId) ==
    Cardinality({i \in DOMAIN content :
                    /\ content[i].op = "import"
                    /\ ImportTargetId(fileKeys, filePath, content[i].path) = targetId})

\* the import edges from one file to one module
ImportEdges(g, sourceId, targetId) ==
    {j \in DOMAIN g.dependencies :
        /\ g.dependencies[j].source = sourceId
        /\ g.dependencies[j].target = targetId
        /\ g.dependencies[j].kind = "import"}

\* C12: when an indexing pass of a file has run, the graph holds, for every module
\* the file's current content imports k times, exactly one import edge from the file
\* to that module, of weight k (two imports of one module: one edge of weight 2).
C12_ImportsGiveWeight ==
    [][\A p \in Paths :
          (/\ lastIndexed'.path = p
           /\ p \in DOMAIN files'
           /\ files'[p].type = "file")
          => \A i \in DOMAIN files'[p].content :
                files'[p].content[i].op = "import" =>
                   \E t \in {ImportTargetId(DOMAIN files', p, files'[p].content[i].path)} :
                      /\ Cardinality(ImportEdges(graph', FileId(p), t)) = 1
                      /\ \A j \in ImportEdges(graph', FileId(p), t) :
                            graph'.dependencies[j].weight =
                               ImportCount(DOMAIN files', p, files'[p].content, t)]_vars

\* C13: every SymbolNode of graph.symbols has the id symbol:<filePath>:<name> built
\* from its own filePath and name, the nodes written for default imports included,
\* so no two nodes share a (filePath, name) pair.
C13_SymbolIdsFromFields ==
    /\ \A i \in DOMAIN graph.symbols :
          graph.symbols[i].id = SymbolId(graph.symbols[i].filePath, graph.symbols[i].name)
    /\ \A i, j \in DOMAIN graph.symbols :
          (/\ graph.symbols[i].filePath = graph.symbols[j].filePath
           /\ graph.symbols[i].name = graph.symbols[j].name) => i = j


\* no list of the store holds two diagnostics with the same id
NoDuplicateIds ==
    \A p \in DOMAIN diagnostics : \A i, j \in DOMAIN diagnostics[p] :
        diagnostics[p][i].id = diagnostics[p][j].id => i = j

\* the entry at position i carries the id, the message and (as a string) the severity
\* of the data
CarriesData(list, i, data) ==
    /\ list[i].id = data.id
    /\ list[i].message = data.message
    /\ list[i].severity = IF IsString(data.severity) THEN data.severity.string
                          ELSE FromSeverityEnum(data.severity.number)

\* C14: after any sequence of addDiagnostic, removeDiagnostic and clearDiagnostics
\* calls no list of the store holds an id twice; and an addDiagnostic whose id is in
\* the path's list replaces that entry where it stands with the new data and leaves
\* the rest of the list alone, while an id that is not there is appended.
C14_UpsertById ==
    /\ []NoDuplicateIds
    /\ [][lastOp'.op = "addDiagnostic" =>
            \E old \in {ListOf(diagnostics, lastOp'.arg.filePath)} :
            \E new \in {ListOf(diagnostics', lastOp'.arg.filePath)} :
               IF \E i \in DOMAIN old : old[i].id = lastOp'.arg.id
               THEN /\ Len(new) = Len(old)
                    /\ \A i \in DOMAIN old :
                          IF old[i].id = lastOp'.arg.id
                          THEN CarriesData(new, i, lastOp'.arg)
                          ELSE new[i] = old[i]
               ELSE /\ Len(new) = Len(old) + 1
                    /\ SubSeq(new, 1, Len(old)) = old
                    /\ CarriesData(new, Len(new), lastOp'.arg)]_vars

\* addDiagnostic has just replaced the first of two entries of a list with other data
\* of the same id
C14_Witness ==
    /\ lastOp.op = "addDiagnostic"
    /\ Len(ListOf(diagnostics, lastOp.arg.filePath)) = 2
    /\ diagnostics[lastOp.arg.filePath][1].id = lastOp.arg.id
    /\ diagnostics[lastOp.arg.filePath][1].message = "second"
    /\ diagnostics[lastOp.arg.filePath][2].message = "first"

(***************************************************************************)
(* C15  clear-then-repopulate                                              *)
(***************************************************************************)
\* what _detectDiagnostics reports on a text, starting from an empty list
DetectedFrom(filePath, content) ==
    IF ShouldAnalyzeForDiagnostics(filePath)
    THEN ListOf(Detectors(<<>>, filePath, content), filePath)
    ELSE <<>>

CaughtInLoop ==
    lastIndexed.threw =>
        /\ isIndexing
        /\ \E i \in DOMAIN drains : /\ drains[i].lastTicket = lastIndexed.ticket
                                    /\ drains[i].lastThrew

\* C16 as stated: an exception thrown while a queued file is indexed is caught for
\* that file and the drain loop goes on; every other path that is queued then is
\* eventually passed to _indexFile, and the service eventually is quiescent
\* (isIndexing = false, empty queue).
C16_ThrowKeepsDraining ==
    /\ []CaughtInLoop
    /\ lastIndexed.threw ~> Quiescent
    /\ \A p \in QueueablePaths :
          (lastIndexed.threw /\ InQueue(St, p)) ~> (lastIndexed.path = p)

\* C16, amended: as above, but a path that waits in the queue may also leave it
\* because a reindexAll() discards it.
C16_ThrowKeepsDrainingUnlessDropped ==
    /\ []CaughtInLoop
    /\ lastIndexed.threw ~> Quiescent
    /\ \A p \in QueueablePaths :
          (lastIndexed.threw /\ InQueue(St, p)) ~> (lastIndexed.path = p \/ p \in dropped)

\* the pass of src/c.ts, whose content is not a string, threw; the same activation
\* then took src/b.ts from the queue and indexed it
C16_Witness ==
    /\ lastIndexed.path = pB
    /\ lastIndexed.afterThrow
    /\ ~lastIndexed.threw
    /\ FileFound(St, pC) /\ files[pC].content = Undefined
    /\ FileId(pB) \in DOMAIN graph.files
    /\ FileId(pC) \in DOMAIN graph.files
(***************************************************************************)
(* C17  the reference getGraph() returns                                   *)
(***************************************************************************)
\* what a caller reads through the reference it holds
Seen == IF held.object = graphObject THEN graph ELSE held.frozen

\* C17: the reference a caller got from getGraph() shows, at every later time, the
\* graph the service works on: every mutation made since (indexing passes,
\* removals, reindexAll) is visible through it.
C17_ReferenceStaysLive ==
    held # NoRef => /\ held.object = graphObject
                    /\ Seen = graph
(***************************************************************************)
(* C18, C19  navigation between diagnostics                                *)
(***************************************************************************)
\* the list the last find call went through, and the position it was asked from
NavList == GetSortedDiagnostics(diagnostics, lastOp.arg.severityFilter)
NavPosition == lastOp.arg.position

\* the place of a position relative to an item of the sorted list, in the order of
\* the sort: negative when the position comes first
PositionCompare(position, diagnostic) ==
    SortCallback([filePath |-> position.filePath, line |-> position.line,
                  column |-> position.column], diagnostic)

\* C18: findNextDiagnostic from a position at or after the last item of the sorted
\* list returns the first item of the list; findPreviousDiagnostic from a position
\* at or before the first item returns the last item; either returns null only
\* when the list is empty.
C18_Wraparound ==
    /\ lastOp.op = "findNextDiagnostic" =>
          /\ lastOp.result = Null <=> NavList = <<>>
          /\ (NavList # <<>> /\ PositionCompare(NavPosition, NavList[Len(NavList)]) >= 0)
                => lastOp.result = NavList[1]
    /\ lastOp.op = "findPreviousDiagnostic" =>
          /\ lastOp.result = Null <=> NavList = <<>>
          /\ (NavList # <<>> /\ PositionCompare(NavPosition, NavList[1]) <= 0)
                => lastOp.result = NavList[Len(NavList)]

\* the first item of the list that comes strictly after the position in the order
\* of the sort, or the first item when there is none
NextInOrder(list, position) ==
    IF list = <<>> THEN Null
    ELSE IF \E i \in DOMAIN list : PositionCompare(position, list[i]) < 0
    THEN list[CHOOSE i \in DOMAIN list :
                 /\ PositionCompare(position, list[i]) < 0
                 /\ \A j \in 1..(i - 1) : PositionCompare(position, list[j]) >= 0]
    ELSE list[1]

\* the last item of the list that comes strictly before the position in the order
\* of the sort, or the last item when there is none
PreviousInOrder(list, position) ==
    IF list = <<>> THEN Null
    ELSE IF \E i \in DOMAIN list : PositionCompare(position, list[i]) > 0
    THEN list[CHOOSE i \in DOMAIN list :
                 /\ PositionCompare(position, list[i]) > 0
                 /\ \A j \in (i + 1)..Len(list) : PositionCompare(position, list[j]) <= 0]
    ELSE list[Len(list)]

\* C19: findNextDiagnostic returns the least diagnostic strictly greater than the
\* position, and findPreviousDiagnostic the greatest strictly smaller one (with
\* wraparound), in the order the list is sorted by; the order of the sort and the
\* comparison with the position agree on the path of every item and the path of
\* the position.
C19_OneTotalOrder ==
    /\ lastOp.op = "findNextDiagnostic" => lastOp.result = NextInOrder(NavList, NavPosition)
    /\ lastOp.op = "findPreviousDiagnostic" =>
          lastOp.result = PreviousInOrder(NavList, NavPosition)
    /\ lastOp.op \in {"findNextDiagnostic", "findPreviousDiagnostic"} =>
          \A i \in DOMAIN NavList :
             (LocaleCompare(NavList[i].filePath, NavPosition.filePath) > 0)
                <=> GreaterThan(NavList[i].filePath, NavPosition.filePath, 1)
(***************************************************************************)
(* C20  severities extracted from tool output                              *)
(***************************************************************************)
\* the lines of the output that the matcher's expression matches
MatchedLines(output, matcherId) ==
    SelectSeq(output, LAMBDA l : l.matches = ProblemMatchers[matcherId].regexp)

\* C20: under the 'eslint' matcher every matching line yields a diagnostic whose
\* severity is the severity word of the line (error, warning or info); under a
\* matcher without a severity group, as 'typescript', every diagnostic has severity
\* 'error'.
C20_SeverityFromOutput ==
    (lastOp.op = "extractDiagnosticsFromOutput"
        /\ lastOp.arg.matcherId \in DOMAIN ProblemMatchers) =>
       \E lines \in {MatchedLines(lastOp.arg.output, lastOp.arg.matcherId)} :
          /\ Len(lastOp.result) = Len(lines)
          /\ \A i \in DOMAIN lines :
                lastOp.result[i].severity =
                   IF "severity" \in DOMAIN ProblemMatchers[lastOp.arg.matcherId]
                   THEN lines[i].groups[ProblemMatchers[lastOp.arg.matcherId].severity][1]
                   ELSE "error"
(***************************************************************************)
(* C21  originalContent of a file context                                  *)
(***************************************************************************)
\* C21: for every path, the originalContent of its cache entry is the first
\* non-empty original content a call of updateFileContext supplied for the path,
\* whatever later calls supply; until a call supplies one it is empty or undefined.
C21_OriginalSetOnce ==
    \A filePath \in DOMAIN client.fileContextCache :
       IF filePath \in DOMAIN client.firstOriginal
       THEN client.fileContextCache[filePath].originalContent
               = client.firstOriginal[filePath]
       ELSE ~Truthy(client.fileContextCache[filePath].originalContent)

\* a call supplied another non-empty original for a.ts after one was recorded, and
\* the entry still holds the first
C21_Witness ==
    /\ lastOp.op = "updateFileContext"
    /\ lastOp.arg.filePath = pA
    /\ lastOp.arg.originalContent = cB
    /\ pA \in DOMAIN client.firstOriginal
    /\ client.firstOriginal[pA] = cA
    /\ client.fileContextCache[pA].originalContent = cA
(***************************************************************************)
(* C22  the threshold of the rename heuristic                              *)
(***************************************************************************)
\* the tokens only in the original and only in the current content of the last call
RemovedOf(op) ==
    SelectSeq(ExtractTokens(op.arg.originalContent, 1),
              LAMBDA token : ~Has(op.arg.currentContent, token))
AddedOf(op) ==
    SelectSeq(ExtractTokens(op.arg.currentContent, 1),
              LAMBDA token : ~Has(op.arg.originalContent, token))
Reported(op, oldName, newName) ==
    \E k \in DOMAIN op.result.renamedTokens :
        /\ op.result.renamedTokens[k].oldName = oldName
        /\ op.result.renamedTokens[k].newName = newName
SameCount(op) == Len(RemovedOf(op)) > 0 /\ Len(RemovedOf(op)) = Len(AddedOf(op))

NamedEntries(fileKeys, filePath, importPath) ==
    { key \in fileKeys :
        \E i \in DOMAIN PossibleExtensions :
            \/ key = SourceDir(filePath) \o Tail(importPath) \o <<PossibleExtensions[i]>>
            \/ key = SourceDir(filePath) \o Tail(importPath)
                        \o <<"index", PossibleExtensions[i]>> }

\* C23: when an indexing pass of a file has run whose text imports ./<name>, and the
\* file map holds <dir>/<name>.ts (or another probed form) for the file's directory,
\* the graph has an import edge from the file to the file id of that entry.
C23_RelativeImportResolved ==
    (/\ lastIndexed # NoEntry
     /\ ~lastIndexed.threw
     /\ FileFound(St, lastIndexed.path))
    => \A i \in DOMAIN files[lastIndexed.path].content :
          \E stmt \in {files[lastIndexed.path].content[i]} :
             (/\ stmt.op = "import"
              /\ Head(stmt.path) = "."
              /\ NamedEntries(DOMAIN files, lastIndexed.path, stmt.path) # {})
             => \E key \in NamedEntries(DOMAIN files, lastIndexed.path, stmt.path) :
                   ImportEdges(graph, FileId(lastIndexed.path), FileId(key)) # {}
(***************************************************************************)
(* C24  'uses' edges of named imports                                      *)
(***************************************************************************)
UsesEdges(g, sourceId, targetId) ==
    {j \in DOMAIN g.dependencies :
        /\ g.dependencies[j].source = sourceId
        /\ g.dependencies[j].target = targetId
        /\ g.dependencies[j].kind = "uses"}

\* C24: when an indexing pass of a file has run that recorded at least one symbol
\* for it and whose text has import { s } from a module whose FileNode and symbol s
\* the graph holds, the graph has a 'uses' edge from every symbol of the file to
\* that symbol.
C24_NamedImportUses ==
    (/\ lastIndexed # NoEntry
     /\ ~lastIndexed.threw
     /\ FileFound(St, lastIndexed.path))
    => \A i \in DOMAIN files[lastIndexed.path].content :
          \E stmt \in {files[lastIndexed.path].content[i]} :
             (stmt.op = "import" /\ stmt.shape = "named")
             => \E resolvedPath \in {ResolveImportPath(DOMAIN files, lastIndexed.path,
                                                       stmt.path)} :
                   \A k \in DOMAIN stmt.names :
                      (/\ resolvedPath # None
                       /\ FileId(resolvedPath) \in DOMAIN graph.files
                       /\ HasSymbol(graph, SymbolId(resolvedPath, stmt.names[k])))
                      => \A n \in DOMAIN graph.files[FileId(lastIndexed.path)].symbols :
                            UsesEdges(graph,
                                      graph.files[FileId(lastIndexed.path)].symbols[n],
                                      SymbolId(resolvedPath, stmt.names[k])) # {}
(***************************************************************************)
(* C25  processFile returns                                                *)
(***************************************************************************)
\* the occurrences of deprecated phrases in a text
DeprecatedOccurrences(content) ==
    {i \in DOMAIN content :
        \E k \in DOMAIN DeprecatedAPIs : content[i] \in DeprecatedAPIs[k].phrases}

\* C25: every call of processFile returns, and the list it returns has exactly one
\* Warning diagnostic tagged Deprecated for every occurrence of a deprecated phrase.
C25_ProcessFileReturns ==
    /\ (client.run.pc = "deprecated") ~> (client.run.pc = "returned")
    /\ [](client.run.pc = "returned" =>
             \A i \in DeprecatedOccurrences(client.run.content) :
                Cardinality({k \in DOMAIN client.run.diagnostics :
                                /\ client.run.diagnostics[k].index = i
                                /\ client.run.diagnostics[k].tags = <<2>>
                                /\ client.run.diagnostics[k].severity = SeverityWarning})
                   = 1)
(***************************************************************************)
(* C26  isIndexing and the queue                                           *)
(***************************************************************************)
\* C26: in every state between two steps of the service (a public call has returned,
\* or a drain waits at its await), isIndexing = false implies that the queue is empty.
C26_IdleMeansEmptyQueue == ~isIndexing => indexingQueue = <<>>

\* a drain has started and has ended in its finally block: no drain waits, the flag
\* is down and the queue is empty
C26_Witness ==
    /\ indexVersion > 0
    /\ drains = <<>>
    /\ ~isIndexing
    /\ indexingQueue = <<>>
(***************************************************************************)
(* C27  the ends of the dependency edges                                   *)
(***************************************************************************)
IsNode(g, id) == id \in DOMAIN g.files \/ HasSymbol(g, id)

\* C27: in every quiescent state the source and the target of every dependency edge
\* are keys of graph.files or of graph.symbols.
C27_EdgesJoinNodes ==
    Quiescent =>
        \A j \in DOMAIN graph.dependencies :
            /\ IsNode(graph, graph.dependencies[j].source)
            /\ IsNode(graph, graph.dependencies[j].target)
(***************************************************************************)
(* C28  graph.symbols and the symbol lists of the FileNodes                *)
(***************************************************************************)
\* C28: in every quiescent state every SymbolNode is listed in the symbols of the
\* FileNode of its filePath, and every id a FileNode lists is a key of graph.symbols.
C28_SymbolsAgree ==
    Quiescent =>
        /\ \A i \in DOMAIN graph.symbols :
              /\ FileId(graph.symbols[i].filePath) \in DOMAIN graph.files
              /\ Has(graph.files[FileId(graph.symbols[i].filePath)].symbols,
                     graph.symbols[i].id)
        /\ \A f \in DOMAIN graph.files :
              \A n \in DOMAIN graph.files[f].symbols :
                 HasSymbol(graph, graph.files[f].symbols[n])
(***************************************************************************)
(* C29  stepping through every diagnostic                                  *)
(***************************************************************************)
\* the ids of the diagnostics of the store
StoredIds ==
    {GetSortedDiagnostics(diagnostics, NoFilter)[i].id
        : i \in DOMAIN GetSortedDiagnostics(diagnostics, NoFilter)}

\* C29: a caller that starts from the position of a diagnostic and calls
\* findNextDiagnostic with the position of the diagnostic just returned has been
\* given every diagnostic of the store when it is given one at its start again,
\* diagnostics that share file, line and column with another included.
C29_TourVisitsAll ==
    (client.tour.done /\ lastOp.op = "findNextDiagnostic")
        => client.tour.visited = StoredIds
(***************************************************************************)
(* C30  the status poll of WorkspaceIndexStore                             *)
(***************************************************************************)
\* C30: a status poll lowers the store's isIndexing (and sets progress to 100) only
\* in a state in which the service has no drain in progress and an empty queue; and
\* while the store's isIndexing is true, progress is at most 99.
C30_PollLowersWhenIdle ==
    [][/\ (/\ client.indexStore.isIndexing
           /\ ~client'.indexStore.isIndexing
           /\ lastOp'.op = "updateIndexingStatus")
          => /\ drains = <<>>
             /\ ~isIndexing
             /\ indexingQueue = <<>>
             /\ client'.indexStore.progress = 100
       /\ client'.indexStore.isIndexing => client'.indexStore.progress <= 99]_vars

\* after forceReindex and the indexing it started, a poll has raised progress to 99
\* and a later one has lowered isIndexing
C30_Witness ==
    /\ lastOp.op = "updateIndexingStatus"
    /\ lastOp.result
    /\ ~client.indexStore.isIndexing
    /\ client.indexStore.progress = 100
    /\ client.indexStore.stats.files > 0
====
